---- MODULE Spec2Model ----
(***************************************************************************)
(* Event discovery and classification pipeline of Craft Amplify:           *)
(* the scan-local-events edge function (markup extractor, date heuristic,  *)
(* candidate builder, gatekeeper, enrichment, brief fan-out) together with *)
(* the raw_events / research_briefs / winery_profiles tables it works on.  *)
(*                                                                         *)
(* Text is modelled by TLA+ strings, instants by integers counting hours   *)
(* since 1970-01-01T00:00Z (the edge runtime's local time zone is UTC).    *)
(***************************************************************************)
EXTENDS Integers, Sequences, FiniteSets, TLC

(***************************************************************************)
(* Text helpers (JavaScript String operations used by the source).         *)
(***************************************************************************)
Ch(s, i) == SubSeq(s, i, i)

Digits == {"0", "1", "2", "3", "4", "5", "6", "7", "8", "9"}

IsDigitAt(s, i) == i >= 1 /\ i <= Len(s) /\ Ch(s, i) \in Digits

IsSpaceAt(s, i) == i >= 1 /\ i <= Len(s) /\ Ch(s, i) = " "

MinOf(S) == CHOOSE x \in S : \A y \in S : x <= y

MaxOf(S) == CHOOSE x \in S : \A y \in S : x >= y

\* positions k >= i of s holding the character c
PositionsFrom(s, c, i) == {k \in i..Len(s) : Ch(s, k) = c}

\* String.prototype.includes
Includes(s, sub) ==
  \E i \in 1..(Len(s) - Len(sub) + 1) : SubSeq(s, i, i + Len(sub) - 1) = sub

\* s.startsWith(sub, i - 1)
StartsAt(s, sub, i) ==
  i >= 1 /\ i + Len(sub) - 1 <= Len(s) /\ SubSeq(s, i, i + Len(sub) - 1) = sub

UpperCase == <<"A", "B", "C", "D", "E", "F", "G", "H", "I", "J", "K", "L", "M",
               "N", "O", "P", "Q", "R", "S", "T", "U", "V", "W", "X", "Y", "Z">>

LowerCase == <<"a", "b", "c", "d", "e", "f", "g", "h", "i", "j", "k", "l", "m",
               "n", "o", "p", "q", "r", "s", "t", "u", "v", "w", "x", "y", "z">>

\* the lower-case letter of each upper-case letter
LowerOf ==
  [c \in {UpperCase[k] : k \in 1..26} |-> LowerCase[CHOOSE k \in 1..26 : UpperCase[k] = c]]

LowerCh(c) == IF c \in DOMAIN LowerOf THEN LowerOf[c] ELSE c

RECURSIVE LowerRange(_, _, _)
LowerRange(s, lo, hi) ==
  IF lo > hi THEN ""
  ELSE IF lo = hi THEN LowerCh(Ch(s, lo))
  ELSE LET mid == (lo + hi) \div 2
       IN  LowerRange(s, lo, mid) \o LowerRange(s, mid + 1, hi)

\* String.prototype.toLowerCase
ToLowerCase(s) == LowerRange(s, 1, Len(s))

\* String.prototype.trim (the texts of the model hold no white space but " ")
Trim(s) ==
  IF \A k \in 1..Len(s) : Ch(s, k) = " " THEN ""
  ELSE SubSeq(s, CHOOSE a \in 1..Len(s) :
                   Ch(s, a) # " " /\ \A k \in 1..(a - 1) : Ch(s, k) = " ",
                 Len(s) - CHOOSE z \in 0..(Len(s) - 1) :
                            /\ Ch(s, Len(s) - z) # " "
                            /\ \A k \in 0..(z - 1) : Ch(s, Len(s) - k) = " ")

DigitValue(c) == CHOOSE v \in 0..9 : ToString(v) = c

\* parseInt of a run of decimal digits
RECURSIVE ParseInt(_)
ParseInt(s) ==
  IF Len(s) = 0 THEN 0
  ELSE 10 * ParseInt(SubSeq(s, 1, Len(s) - 1)) + DigitValue(Ch(s, Len(s)))

\* number of digits at position i of s, at most cap (a greedy \d{1,cap})
DigitRun(s, i, cap) ==
  IF {k \in 1..cap : \A j \in 0..(k - 1) : IsDigitAt(s, i + j)} = {} THEN 0
  ELSE MaxOf({k \in 1..cap : \A j \in 0..(k - 1) : IsDigitAt(s, i + j)})

\* first position at or after i that holds no space (a greedy \s*)
SkipSpaces(s, i) ==
  MinOf({k \in i..(Len(s) + 1) : ~IsSpaceAt(s, k)})

(***************************************************************************)
(* Calendar (JavaScript Date, proleptic Gregorian, UTC).                   *)
(***************************************************************************)
\* days since 1970-01-01 of the civil date y-m-d, m in 1..12
DaysFromCivil(y, m, d) ==
  LET yy  == IF m <= 2 THEN y - 1 ELSE y
      era == yy \div 400
      yoe == yy - era * 400
      mp  == IF m > 2 THEN m - 3 ELSE m + 9
      doy == (153 * mp + 2) \div 5 + d - 1
      doe == yoe * 365 + yoe \div 4 - yoe \div 100 + doy
  IN  era * 146097 + doe - 719468

\* the civil date <<y, m, d>> of a day number
CivilFromDays(z) ==
  LET zz  == z + 719468
      era == zz \div 146097
      doe == zz - era * 146097
      yoe == (doe - doe \div 1460 + doe \div 36524 - doe \div 146096) \div 365
      doy == doe - (365 * yoe + yoe \div 4 - yoe \div 100)
      mp  == (5 * doy + 2) \div 153
      d   == doy - (153 * mp + 2) \div 5 + 1
      m   == IF mp < 10 THEN mp + 3 ELSE mp - 9
      y   == yoe + era * 400 + (IF m <= 2 THEN 1 ELSE 0)
  IN  <<y, m, d>>

\* new Date(year, monthIndex, day): out-of-range months and days roll over,
\* a year in 0..99 means 1900 + year
MakeDate(year, monthIndex, day) ==
  LET y0 == IF year >= 0 /\ year <= 99 THEN 1900 + year ELSE year
      y  == y0 + monthIndex \div 12
      m  == (monthIndex % 12) + 1
  IN  (DaysFromCivil(y, m, 1) + day - 1) * 24

\* Date.prototype.getFullYear / getMonth / getDate
GetFullYear(t) == CivilFromDays(t \div 24)[1]

GetMonth(t) == CivilFromDays(t \div 24)[2] - 1

GetDate(t) == CivilFromDays(t \div 24)[3]

\* toISOString().split('T')[0] read back by new Date: midnight of the day
DayOf(t) == (t \div 24) * 24

\* new Date(s) for the ISO shapes "YYYY-MM-DD" and "YYYY-MM-DDTHH:00:00Z";
\* any other text of the model is no date (NaN), reported as -1
ParseDate(s) ==
  LET shape == /\ Len(s) \in {10, 20}
               /\ \A k \in {1, 2, 3, 4, 6, 7, 9, 10} : IsDigitAt(s, k)
               /\ Ch(s, 5) = "-" /\ Ch(s, 8) = "-"
               /\ Len(s) = 20 => /\ Ch(s, 11) = "T"
                                 /\ IsDigitAt(s, 12) /\ IsDigitAt(s, 13)
                                 /\ SubSeq(s, 14, 20) = ":00:00Z"
      y  == ParseInt(SubSeq(s, 1, 4))
      m  == ParseInt(SubSeq(s, 6, 7))
      d  == ParseInt(SubSeq(s, 9, 10))
      h  == IF Len(s) = 20 THEN ParseInt(SubSeq(s, 12, 13)) ELSE 0
  IN  IF shape /\ m \in 1..12 /\ h \in 0..23 /\ d >= 1
         /\ d <= DaysFromCivil(y + m \div 12, (m % 12) + 1, 1) - DaysFromCivil(y, m, 1)
        THEN DaysFromCivil(y, m, d) * 24 + h
        ELSE -1

(***************************************************************************)
(* Optional dates: event_date of a candidate or of an enriched event.      *)
(* "none" is null / undefined / '', "text" a string that is no date.       *)
(***************************************************************************)
NoDate == [kind |-> "none", at |-> 0]

DateAt(t) == [kind |-> "date", at |-> t]

TextDate == [kind |-> "text", at |-> 0]

(***************************************************************************)
(* Date Heuristic: extractEventDate.                                       *)
(***************************************************************************)
monthNames == <<"january", "february", "march", "april", "may", "june", "july",
                "august", "september", "october", "november", "december">>

NoMatch == [ok |-> FALSE, end |-> 0, g1 |-> "", g2 |-> "", g3 |-> ""]

Match(e, a, b, c) == [ok |-> TRUE, end |-> e, g1 |-> a, g2 |-> b, g3 |-> c]

IsSepAt(t, i) == i >= 1 /\ i <= Len(t) /\ Ch(t, i) \in {"/", "-"}

\* the month names that start at position i of t (at most one)
MonthsAt(t, i) == {k \in 1..12 : StartsAt(t, monthNames[k], i)}

MonthEnd(t, i) == i + Len(monthNames[CHOOSE k \in MonthsAt(t, i) : TRUE])

\* /(\d{1,2})[\/\-](\d{1,2})[\/\-](\d{4})/ tried at position i
MatchNumericYear(t, i) ==
  LET k1 == DigitRun(t, i, 2)
      s1 == i + k1
      k2 == DigitRun(t, s1 + 1, 2)
      s2 == s1 + 1 + k2
  IN  IF k1 >= 1 /\ IsSepAt(t, s1) /\ k2 >= 1 /\ IsSepAt(t, s2)
         /\ DigitRun(t, s2 + 1, 4) = 4
        THEN Match(s2 + 5, SubSeq(t, i, s1 - 1), SubSeq(t, s1 + 1, s2 - 1),
                   SubSeq(t, s2 + 1, s2 + 4))
        ELSE NoMatch

\* /(\d{1,2})[\/\-](\d{1,2})(?!\d)/ tried at position i
MatchNumeric(t, i) ==
  LET k1 == DigitRun(t, i, 2)
      s1 == i + k1
      k2 == DigitRun(t, s1 + 1, 2)
  IN  IF k1 >= 1 /\ IsSepAt(t, s1) /\ k2 >= 1 /\ ~IsDigitAt(t, s1 + 1 + k2)
        THEN Match(s1 + 1 + k2, SubSeq(t, i, s1 - 1), SubSeq(t, s1 + 1, s1 + k2), "")
        ELSE NoMatch

\* /(january|...|december)\s+(\d{1,2}),?\s*(\d{4})/ tried at position i
MatchMonthDayYear(t, i) ==
  IF MonthsAt(t, i) = {} \/ ~IsSpaceAt(t, MonthEnd(t, i)) THEN NoMatch
  ELSE
    LET e  == MonthEnd(t, i)
        d0 == SkipSpaces(t, e)
        YearAt(k) == LET p == d0 + k
                         q == IF p <= Len(t) /\ Ch(t, p) = "," THEN p + 1 ELSE p
                     IN  SkipSpaces(t, q)
        ks == {k \in 1..DigitRun(t, d0, 2) : DigitRun(t, YearAt(k), 4) = 4}
    IN  IF ks = {} THEN NoMatch
        ELSE LET k == MaxOf(ks)
             IN  Match(YearAt(k) + 4, SubSeq(t, i, e - 1), SubSeq(t, d0, d0 + k - 1),
                       SubSeq(t, YearAt(k), YearAt(k) + 3))

\* /(january|...|december)\s+(\d{1,2})(?!\d)/ tried at position i
MatchMonthDay(t, i) ==
  IF MonthsAt(t, i) = {} \/ ~IsSpaceAt(t, MonthEnd(t, i)) THEN NoMatch
  ELSE
    LET e  == MonthEnd(t, i)
        d0 == SkipSpaces(t, e)
        k  == DigitRun(t, d0, 2)
    IN  IF k >= 1 /\ ~IsDigitAt(t, d0 + k)
          THEN Match(d0 + k, SubSeq(t, i, e - 1), SubSeq(t, d0, d0 + k - 1), "")
          ELSE NoMatch

\* /(\d{1,2})\s+(january|...|december)\s+(\d{4})/ tried at position i
MatchDayMonthYear(t, i) ==
  LET k1 == DigitRun(t, i, 2)
      m0 == SkipSpaces(t, i + k1)
  IN  IF k1 >= 1 /\ IsSpaceAt(t, i + k1) /\ MonthsAt(t, m0) # {}
         /\ IsSpaceAt(t, MonthEnd(t, m0))
         /\ DigitRun(t, SkipSpaces(t, MonthEnd(t, m0)), 4) = 4
        THEN LET e == MonthEnd(t, m0)
                 y == SkipSpaces(t, e)
             IN  Match(y + 4, SubSeq(t, i, i + k1 - 1), SubSeq(t, m0, e - 1),
                       SubSeq(t, y, y + 3))
        ELSE NoMatch

\* /(\d{1,2})\s+(january|...|december)(?!\s+\d{4})/ tried at position i
MatchDayMonth(t, i) ==
  LET k1 == DigitRun(t, i, 2)
      m0 == SkipSpaces(t, i + k1)
  IN  IF k1 >= 1 /\ IsSpaceAt(t, i + k1) /\ MonthsAt(t, m0) # {}
         /\ ~(/\ IsSpaceAt(t, MonthEnd(t, m0))
              /\ DigitRun(t, SkipSpaces(t, MonthEnd(t, m0)), 4) = 4)
        THEN Match(MonthEnd(t, m0), SubSeq(t, i, i + k1 - 1),
                   SubSeq(t, m0, MonthEnd(t, m0) - 1), "")
        ELSE NoMatch

\* datePatterns[p] tried at position i
MatchAt(p, t, i) ==
  CASE p = 1 -> MatchNumericYear(t, i)
    [] p = 2 -> MatchNumeric(t, i)
    [] p = 3 -> MatchMonthDayYear(t, i)
    [] p = 4 -> MatchMonthDay(t, i)
    [] p = 5 -> MatchDayMonthYear(t, i)
    [] p = 6 -> MatchDayMonth(t, i)

\* a match of datePatterns[p] starts with a digit or with the first letter
\* of a month name
CanStartAt(p, t, i) ==
  IF p \in {3, 4} THEN Ch(t, i) \in {"j", "f", "m", "a", "s", "o", "n", "d"}
  ELSE Ch(t, i) \in Digits

\* the positions of t at which datePatterns[p] matches
Hits(p, t) == {k \in 1..Len(t) : CanStartAt(p, t, k) /\ MatchAt(p, t, k).ok}

\* the matches a global search finds from position i on: the leftmost one,
\* then those after its end
RECURSIVE Leftmost(_, _, _, _)
Leftmost(p, t, hits, i) ==
  IF \A k \in hits : k < i THEN <<>>
  ELSE <<MatchAt(p, t, MinOf({k \in hits : k >= i})) @@ [pattern |-> p]>>
         \o Leftmost(p, t, hits, MatchAt(p, t, MinOf({k \in hits : k >= i})).end)

\* [...text.matchAll(datePatterns[p])]
MatchesFrom(p, t, i) == Leftmost(p, t, Hits(p, t), i)

\* the sequences of a sequence, one after the other
RECURSIVE Concat(_)
Concat(seqs) == IF seqs = <<>> THEN <<>> ELSE Head(seqs) \o Concat(Tail(seqs))

MonthIndex(name) == (CHOOSE k \in 1..12 : monthNames[k] = name) - 1

\* a match without a year read as a date of the next year (a faulty variant
\* of the one below)
MatchDateNextYear(m, currentYear) ==
  LET year == IF m.g3 # "" THEN ParseInt(m.g3) ELSE currentYear + 1
  IN  CASE m.pattern \in {1, 2} -> MakeDate(year, ParseInt(m.g1) - 1, ParseInt(m.g2))
        [] m.pattern \in {3, 4} -> MakeDate(year, MonthIndex(m.g1), ParseInt(m.g2))
        [] m.pattern \in {5, 6} -> MakeDate(year, MonthIndex(m.g2), ParseInt(m.g1))

\* the Date a match is turned into (numeric branch, "Month DD" branch,
\* "DD Month" branch); a missing year is the current year
MatchDate(m, currentYear) ==
  LET year == IF m.g3 # "" THEN ParseInt(m.g3) ELSE currentYear
  IN  CASE m.pattern \in {1, 2} -> MakeDate(year, ParseInt(m.g1) - 1, ParseInt(m.g2))
        [] m.pattern \in {3, 4} -> MakeDate(year, MonthIndex(m.g1), ParseInt(m.g2))
        [] m.pattern \in {5, 6} -> MakeDate(year, MonthIndex(m.g2), ParseInt(m.g1))

\* the validation of a match's Date
Reasonable(d, currentYear) ==
  /\ GetFullYear(d) >= currentYear
  /\ GetFullYear(d) <= (currentYear + 1) + 1
  /\ GetMonth(d) >= 0 /\ GetMonth(d) <= 11
  /\ GetDate(d) >= 1 /\ GetDate(d) <= 31

\* a pubDate fallback that takes a hint of any year (a faulty variant of the
\* one below)
PublishedDateAnyYear(pubDate, currentYear) ==
  IF pubDate # "" /\ ParseDate(pubDate) # -1 THEN DateAt(ParseDate(pubDate)) ELSE NoDate

\* the pubDate fallback
PublishedDate(pubDate, currentYear) ==
  IF pubDate # "" /\ ParseDate(pubDate) # -1
     /\ GetFullYear(ParseDate(pubDate)) >= currentYear - 1
    THEN DateAt(ParseDate(pubDate))
    ELSE NoDate

\* the first valid match decides, the pubDate fallback otherwise
FirstValid(valid, pubDate, currentYear) ==
  IF valid # <<>> THEN DateAt(MatchDate(Head(valid), currentYear))
  ELSE PublishedDate(pubDate, currentYear)

\* the matches of all six patterns in pattern order, then their validation
ValidMatches(text, currentYear) ==
  SelectSeq(Concat([p \in 1..6 |-> MatchesFrom(p, text, 1)]),
            LAMBDA m : Reasonable(MatchDate(m, currentYear), currentYear))

extractEventDate(title, description, pubDate, now) ==
  FirstValid(ValidMatches(ToLowerCase(title \o " " \o description), GetFullYear(now)),
             pubDate, GetFullYear(now))

\* a window test that leaves both bounds out (a faulty variant of the one below)
isEventInDateRangeExclusive(eventDate, startDate, endDate) ==
  eventDate > startDate /\ eventDate < endDate

\* isEventInDateRange
isEventInDateRange(eventDate, startDate, endDate) ==
  eventDate >= startDate /\ eventDate <= endDate

(***************************************************************************)
(* Markup Extractor: parseXML.  A feed document is modelled by the         *)
(* sequence of its <item> blocks, each block by the texts its field scans  *)
(* capture ("" when a scan finds no such field).                           *)
(***************************************************************************)
Block(t, d, l, p, g) ==
  [title |-> t, description |-> d, link |-> l, pubDate |-> p, guid |-> g]

\* a scan of the block that does not look at guid (a faulty variant of the one
\* below)
ParseItemWithoutGuid(b) ==
  [title       |-> Trim(b.title),
   description |-> Trim(b.description),
   link        |-> Trim(b.link),
   pubDate     |-> Trim(b.pubDate)]

\* the fields taken from one <item> block; guid stands in for a missing link
ParseItem(b) ==
  [title       |-> Trim(b.title),
   description |-> Trim(b.description),
   link        |-> IF Trim(b.link) # "" THEN Trim(b.link) ELSE Trim(b.guid),
   pubDate     |-> Trim(b.pubDate)]

parseXML(xmlString) ==
  [items |-> [i \in 1..Len(xmlString) |-> ParseItem(xmlString[i])]]

\* .replace(/<[^>]*>/g, '') from position i on
RECURSIVE StripTagsFrom(_, _)
StripTagsFrom(s, i) ==
  LET opens == {k \in PositionsFrom(s, "<", i) : PositionsFrom(s, ">", k + 1) # {}}
  IN  IF opens = {} THEN SubSeq(s, i, Len(s))
      ELSE LET o == MinOf(opens)
               c == MinOf(PositionsFrom(s, ">", o + 1))
           IN  SubSeq(s, i, o - 1) \o StripTagsFrom(s, c + 1)

\* .replace(/&[^;]+;/g, ' ') from position i on
RECURSIVE ReplaceEntitiesFrom(_, _)
ReplaceEntitiesFrom(s, i) ==
  LET amps == {a \in PositionsFrom(s, "&", i) :
                 /\ PositionsFrom(s, ";", a + 1) # {}
                 /\ MinOf(PositionsFrom(s, ";", a + 1)) >= a + 2}
  IN  IF amps = {} THEN SubSeq(s, i, Len(s))
      ELSE LET a == MinOf(amps)
               e == MinOf(PositionsFrom(s, ";", a + 1))
           IN  SubSeq(s, i, a - 1) \o " " \o ReplaceEntitiesFrom(s, e + 1)

\* the clean-up of a title or description
CleanText(raw) == Trim(ReplaceEntitiesFrom(StripTagsFrom(raw, 1), 1))

(***************************************************************************)
(* Candidate Builder: extractRSSEvents.                                    *)
(***************************************************************************)
ItemCap == 100

MinTitleLength == 5

\* the title test of extractRSSEvents
TitleAccepted(cleanTitle) == cleanTitle # "" /\ Len(cleanTitle) > MinTitleLength

\* the PotentialEvent built from one parsed item
BuildEvent(item, sourceUrl, sourceName, now) ==
  LET cleanTitle       == CleanText(item.title)
      cleanDescription == CleanText(item.description)
  IN  [title       |-> cleanTitle,
       description |-> cleanDescription,
       link        |-> IF item.link # "" THEN item.link ELSE sourceUrl,
       published   |-> item.pubDate,
       source_name |-> sourceName,
       source_url  |-> sourceUrl,
       event_date  |-> extractEventDate(cleanTitle, cleanDescription, item.pubDate, now)]

\* a date test that drops the events without a date (a faulty variant of the
\* one below)
InWindowOnly(event, startDate, endDate) ==
  /\ event.event_date.kind # "none"
  /\ isEventInDateRange(event.event_date.at, startDate, endDate)

\* the date test of extractRSSEvents
InWindowOrUndated(event, startDate, endDate) ==
  event.event_date.kind = "none"
    \/ isEventInDateRange(event.event_date.at, startDate, endDate)

\* a Candidate Builder that looks at every item of the feed (a faulty variant
\* of the one below)
extractRSSEventsUncapped(rssXml, sourceUrl, sourceName, startDate, endDate, now) ==
  LET items    == parseXML(rssXml).items
      titled   == SelectSeq(items, LAMBDA item : TitleAccepted(CleanText(item.title)))
      built    == [i \in 1..Len(titled) |-> BuildEvent(titled[i], sourceUrl, sourceName, now)]
  IN  SelectSeq(built, LAMBDA event : InWindowOrUndated(event, startDate, endDate))

extractRSSEvents(rssXml, sourceUrl, sourceName, startDate, endDate, now) ==
  LET items    == parseXML(rssXml).items
      capped   == SubSeq(items, 1, IF Len(items) < ItemCap THEN Len(items) ELSE ItemCap)
      titled   == SelectSeq(capped, LAMBDA item : TitleAccepted(CleanText(item.title)))
      built    == [i \in 1..Len(titled) |-> BuildEvent(titled[i], sourceUrl, sourceName, now)]
  IN  SelectSeq(built, LAMBDA event : InWindowOrUndated(event, startDate, endDate))

(***************************************************************************)
(* Source Registry of the inline path.                                     *)
(***************************************************************************)
\* new URL(u) succeeds
ValidUrl(u) ==
  \E scheme \in {"https://", "http://"} :
    StartsAt(u, scheme, 1) /\ Len(u) > Len(scheme) /\ Ch(u, Len(scheme) + 1) # "/"

\* new URL(u).hostname of a valid URL without port, user or query
Hostname(u) ==
  LET scheme == CHOOSE sc \in {"https://", "http://"} : StartsAt(u, sc, 1)
      first  == Len(scheme) + 1
      slash  == PositionsFrom(u, "/", first)
  IN  SubSeq(u, first, IF slash = {} THEN Len(u) ELSE MinOf(slash) - 1)

\* raises (new URL throws) exactly when SourceNameThrows
SourceNameThrows(url) ==
  /\ url # ""
  /\ ~\E known \in {"visitloudoun", "fxva.com", "virginia.org", "visitpwc",
                    "visitfauquier", "northernvirginiamag", "discoverclarkecounty"} :
        Includes(url, known)
  /\ ~ValidUrl(url)

SourceName(url) ==
  IF url = "" THEN "Unknown Source"
  ELSE IF Includes(url, "visitloudoun") THEN "Visit Loudoun Events"
  ELSE IF Includes(url, "fxva.com") THEN "FXVA Events"
  ELSE IF Includes(url, "virginia.org") THEN "Virginia Tourism Events"
  ELSE IF Includes(url, "visitpwc") THEN "Prince William County Events"
  ELSE IF Includes(url, "visitfauquier") THEN "Visit Fauquier Events"
  ELSE IF Includes(url, "northernvirginiamag") THEN "Northern Virginia Magazine Events"
  ELSE IF Includes(url, "discoverclarkecounty") THEN "Discover Clarke County Events"
  ELSE Hostname(url)

(***************************************************************************)
(* The scan-local-events handler: requests, service replies, responses.    *)
(***************************************************************************)
Pad2(n) == IF n < 10 THEN "0" \o ToString(n) ELSE ToString(n)

\* Date.prototype.toISOString of an instant on the hour
ToISOString(t) ==
  LET c == CivilFromDays(t \div 24)
  IN  ToString(c[1]) \o "-" \o Pad2(c[2]) \o "-" \o Pad2(c[3])
        \o "T" \o Pad2(t % 24) \o ":00:00.000Z"

\* endDate.setMonth(endDate.getMonth() + 3) on a Date holding the instant t
PlusThreeMonths(t) ==
  MakeDate(GetFullYear(t), GetMonth(t) + 3, GetDate(t)) + (t % 24)

\* Math.ceil((endDate - startDate) / one day)
DurationDays(startDate, endDate) == -((startDate - endDate) \div 24)

\* the sample events the handler makes up when it finds no stored rows
SampleEvents(now) ==
  << [title       |-> "Loudoun County Wine & Food Festival",
      description |-> "Annual celebration featuring local wineries, craft breweries, and artisan food vendors. Perfect opportunity for wine tourism and local partnerships.",
      link        |-> "https://visitloudoun.org/events/wine-food-festival",
      published   |-> ToISOString(now),
      source_name |-> "Visit Loudoun",
      source_url  |-> "https://visitloudoun.org",
      event_date  |-> DateAt(now + 30 * 24)],
     [title       |-> "Fall Harvest Market at Historic Downtown",
      description |-> "Weekly farmers market featuring local produce, artisan goods, and live music. Great venue for wine tastings and community engagement.",
      link        |-> "https://example.com/harvest-market",
      published   |-> ToISOString(now),
      source_name |-> "Local Events",
      source_url  |-> "https://example.com",
      event_date  |-> DateAt(now + 14 * 24)] >>

\* the extraction of one inline payload: nothing when the source name or the
\* missing raw_content raises inside the loop's try block
InlineExtract(item, startDate, endDate, now) ==
  IF SourceNameThrows(item.source_url) \/ ~item.has_content THEN <<>>
  ELSE extractRSSEvents(item.raw_content, item.source_url, SourceName(item.source_url),
                        startDate, endDate, now)

RECURSIVE InlineExtractAll(_, _, _, _)
InlineExtractAll(raw_data, startDate, endDate, now) ==
  IF raw_data = <<>> THEN <<>>
  ELSE InlineExtract(Head(raw_data), startDate, endDate, now)
         \o InlineExtractAll(Tail(raw_data), startDate, endDate, now)

\* a run that backs off from a stored row, as the loser of a lease would
\* (a faulty variant of the one below)
StoredExtractSkipped(rawEvent, startDate, endDate, now) == <<>>

\* the extraction of one stored row
StoredExtract(rawEvent, startDate, endDate, now) ==
  extractRSSEvents(rawEvent.raw_content, rawEvent.source_url,
                   IF rawEvent.source_name # "" THEN rawEvent.source_name
                   ELSE rawEvent.source_url,
                   startDate, endDate, now)

\* what a completion-service call can come to
FailedCall == {"fetch_throws", "not_ok", "body_not_json", "no_choices",
               "content_not_json"}

DefaultedCall == {"empty_choices", "no_content", "key_missing"}

\* filteredEvents after the AI Gatekeeper block
GatekeeperResult(hasKey, outcome, allPotentialEvents) ==
  IF ~hasKey THEN allPotentialEvents
  ELSE IF outcome.kind \in FailedCall THEN allPotentialEvents
  ELSE IF outcome.kind \in DefaultedCall THEN <<>>
  ELSE outcome.list

\* the basic event the handler makes from a filtered event
BasicEvent(event, now) ==
  [event_name      |-> event.title,
   event_date      |-> IF event.event_date.kind # "none" THEN event.event_date
                       ELSE DateAt(DayOf(now + 30 * 24)),
   event_location  |-> "Location TBD",
   event_summary   |-> IF event.description # "" THEN event.description
                       ELSE "Marketing opportunity discovered through event scanning",
   event_url       |-> event.link,
   relevance_score |-> 7,
   source_url      |-> event.source_url,
   source_name     |-> event.source_name]

BasicEvents(filteredEvents, now) ==
  [i \in 1..Len(filteredEvents) |-> BasicEvent(filteredEvents[i], now)]

\* finalEvents after the Enhanced Analysis block
EnrichmentResult(hasKey, outcome, filteredEvents, now) ==
  IF ~hasKey THEN BasicEvents(filteredEvents, now)
  ELSE IF outcome.kind \in FailedCall THEN BasicEvents(filteredEvents, now)
  ELSE IF outcome.kind \in DefaultedCall THEN <<>>
  ELSE outcome.list

\* building wineryBrief raises when event_date is a text that is no date
BriefThrows(event) == event.event_date.kind = "text"

\* the research_briefs row for one (event, winery) pair; each key point is
\* modelled by its label and the value printed after it
WineryBrief(event, winery, dataSource, startDate, endDate, now) ==
  [winery_id            |-> winery,
   suggested_theme      |-> "Event Opportunity: " \o event.event_name,
   key_points           |-> <<<<"Event", event.event_name>>,
                              <<"Date", event.event_date>>,
                              <<"Location", event.event_location>>,
                              <<"Summary", event.event_summary>>,
                              <<"Event URL", event.event_url>>,
                              <<"Relevance Score", event.relevance_score>>,
                              <<"Source", event.source_url>>,
                              <<"Source Name", event.source_name>>,
                              <<"Discovered", DayOf(now)>>,
                              <<"Data Source", dataSource>>,
                              <<"Status", "Non-competitor event - safe for marketing">>,
                              <<"Date Range", <<DayOf(startDate), DayOf(endDate)>> >> >>,
   local_event_name     |-> event.event_name,
   local_event_date     |-> event.event_date,
   local_event_location |-> event.event_location]

(***************************************************************************)
(* State.                                                                  *)
(***************************************************************************)
VARIABLES
  now,             \* the clock of the runs (new Date()), constant over a behaviour
  openaiApiKey,    \* whether OPENAI_API_KEY is set
  raw_events,      \* the raw_events table: rows in created_at order, id = index
  winery_profiles, \* the winery_profiles table: the tenant ids
  research_briefs, \* the research_briefs table: rows in insertion order
  req,             \* per run: the HTTP request it serves
  pc,              \* per run: where the handler stands
  local,           \* per run: the handler's local variables
  resp,            \* per run: the HTTP response, status 0 while there is none
  trace,           \* per run: the external calls it has made, in order
  faults           \* the storage calls that have failed so far

vars == <<now, openaiApiKey, raw_events, winery_profiles, research_briefs,
          req, pc, local, resp, trace, faults>>

\* a storage call may fail while the model's budget of failures lasts
MaxFaults == 2

Failing == IF faults < MaxFaults THEN BOOLEAN ELSE {FALSE}

Fault(failed) == faults' = IF failed THEN faults + 1 ELSE faults

Runs == {"run1", "run2"}

NoResponse == [status |-> 0]

NoRequest == [body |-> "none"]

InitialLocal ==
  [startDate |-> 0, endDate |-> 0, dataSource |-> "unknown",
   rawEvents |-> <<>>, rowIdx |-> 1,
   allPotentialEvents |-> <<>>, filteredEvents |-> <<>>, finalEvents |-> <<>>,
   wineries |-> <<>>, eventIdx |-> 1, wineryIdx |-> 1, briefsCreatedCount |-> 0]

\* the body of the handler's 500 response
ErrorResponse(message) ==
  [status |-> 500, error |-> "Internal server error", details |-> message]

Respond(r, response) ==
  /\ resp' = [resp EXCEPT ![r] = response]
  /\ pc' = [pc EXCEPT ![r] = "done"]

Log(r, entry) == trace' = [trace EXCEPT ![r] = Append(@, entry)]

(***************************************************************************)
(* Receive: the handler up to the choice of the data path, and the inline  *)
(* path's extraction loop (which awaits nothing).                          *)
(***************************************************************************)
\* a handler that reads the stored rows whatever the request carries (a
\* faulty variant of the one below)
ReceiveReadingStore(r) ==
  /\ pc[r] = "start"
  /\ UNCHANGED <<now, openaiApiKey, raw_events, winery_profiles, research_briefs,
                 req, trace, faults>>
  /\ IF req[r].body = "malformed"
       THEN /\ Respond(r, ErrorResponse("Unexpected end of JSON input"))
            /\ UNCHANGED local
       ELSE /\ resp' = resp
            /\ local' = [local EXCEPT ![r] =
                 [@ EXCEPT !.startDate = IF req[r].has_range
                                           THEN ParseDate(req[r].date_range.start_date)
                                           ELSE now,
                           !.endDate = IF req[r].has_range
                                         THEN ParseDate(req[r].date_range.end_date)
                                         ELSE PlusThreeMonths(now)]]
            /\ pc' = [pc EXCEPT ![r] = "read_raw"]

Receive(r) ==
  /\ pc[r] = "start"
  /\ UNCHANGED <<now, openaiApiKey, raw_events, winery_profiles, research_briefs,
                 req, trace, faults>>
  /\ IF req[r].body = "malformed"
       THEN /\ Respond(r, ErrorResponse("Unexpected end of JSON input"))
            /\ UNCHANGED local
       ELSE LET startDate == IF req[r].has_range
                               THEN ParseDate(req[r].date_range.start_date) ELSE now
                endDate   == IF req[r].has_range
                               THEN ParseDate(req[r].date_range.end_date)
                               ELSE PlusThreeMonths(now)
            IN  /\ resp' = resp
                /\ IF req[r].has_raw
                     THEN /\ local' = [local EXCEPT ![r] =
                               [@ EXCEPT !.startDate = startDate,
                                         !.endDate = endDate,
                                         !.dataSource = "google_apps_script_direct",
                                         !.allPotentialEvents =
                                            InlineExtractAll(req[r].raw_data,
                                                             startDate, endDate, now)]]
                          /\ pc' = [pc EXCEPT ![r] = "gatekeeper"]
                     ELSE /\ local' = [local EXCEPT ![r] =
                               [@ EXCEPT !.startDate = startDate, !.endDate = endDate]]
                          /\ pc' = [pc EXCEPT ![r] = "read_raw"]

(***************************************************************************)
(* ReadRawEvents: the select of the unprocessed rows.                      *)
(***************************************************************************)
\* a select that returns the rows whatever their flag (a faulty variant of the
\* one below)
UnprocessedOrNot(table) ==
  [k \in 1..Len(table) |-> [id          |-> k,
                            source_url  |-> table[k].source_url,
                            source_name |-> table[k].source_name,
                            raw_content |-> table[k].raw_content]]

\* select * from raw_events where is_processed = false order by created_at
Unprocessed(table) ==
  LET ids == SelectSeq([i \in 1..Len(table) |-> i], LAMBDA i : ~table[i].is_processed)
  IN  [k \in 1..Len(ids) |-> [id          |-> ids[k],
                              source_url  |-> table[ids[k]].source_url,
                              source_name |-> table[ids[k]].source_name,
                              raw_content |-> table[ids[k]].raw_content]]

ReadRawEvents(r) ==
  /\ pc[r] = "read_raw"
  /\ \E failed \in Failing :
       LET rawEvents == IF failed THEN <<>> ELSE Unprocessed(raw_events)
       IN  /\ Fault(failed)
           /\ Log(r, [op |-> "select_raw_events", ok |-> ~failed])
           /\ IF rawEvents # <<>>
                THEN /\ local' = [local EXCEPT ![r] =
                          [@ EXCEPT !.rawEvents = rawEvents, !.rowIdx = 1,
                                    !.dataSource = "database_stored"]]
                     /\ pc' = [pc EXCEPT ![r] = "extract"]
                ELSE /\ local' = [local EXCEPT ![r] =
                          [@ EXCEPT !.dataSource = "sample_events",
                                    !.allPotentialEvents = SampleEvents(now)]]
                     /\ pc' = [pc EXCEPT ![r] = "gatekeeper"]
  /\ UNCHANGED <<now, openaiApiKey, raw_events, winery_profiles, research_briefs,
                 req, resp>>

(***************************************************************************)
(* ExtractStored: one turn of the stored path's loop: the extraction of a  *)
(* row and the update of its flag, whose result the handler does not read. *)
(***************************************************************************)
\* an update without its filter on the id (a faulty variant of the one below)
MarkProcessedAll(table, id) ==
  [k \in 1..Len(table) |-> [table[k] EXCEPT !.is_processed = TRUE]]

\* update raw_events set is_processed = true where id = id
MarkProcessed(table, id) == [table EXCEPT ![id].is_processed = TRUE]

ExtractStored(r) ==
  /\ pc[r] = "extract"
  /\ LET rawEvent == local[r].rawEvents[local[r].rowIdx]
         last     == local[r].rowIdx = Len(local[r].rawEvents)
     IN  \E failed \in Failing :
           /\ Fault(failed)
           /\ raw_events' = IF failed THEN raw_events
                            ELSE MarkProcessed(raw_events, rawEvent.id)
           /\ Log(r, [op |-> "update_raw_event", id |-> rawEvent.id, ok |-> ~failed])
           /\ local' = [local EXCEPT ![r] =
                 [@ EXCEPT !.allPotentialEvents =
                              @ \o StoredExtract(rawEvent, local[r].startDate,
                                                 local[r].endDate, now),
                           !.rowIdx = @ + 1]]
           /\ pc' = [pc EXCEPT ![r] = IF last THEN "gatekeeper" ELSE "extract"]
  /\ UNCHANGED <<now, openaiApiKey, winery_profiles, research_briefs, req, resp>>

(***************************************************************************)
(* The 200 responses of the handler.                                       *)
(***************************************************************************)
RawSourcesProcessed(request) == IF request.has_raw THEN Len(request.raw_data) ELSE 0

ShortRange(l) == [start |-> l.startDate, end |-> l.endDate]

FullRange(l) ==
  [start |-> l.startDate, end |-> l.endDate,
   duration_days |-> DurationDays(l.startDate, l.endDate)]

NoEventsResponse(request, l) ==
  [status |-> 200, success |-> TRUE,
   message |-> "No events found in the specified date range",
   data_source |-> l.dataSource,
   raw_sources_processed |-> RawSourcesProcessed(request),
   events_extracted |-> 0, events_after_gatekeeper |-> 0, events_final |-> 0,
   date_range |-> FullRange(l)]

NoRelevantResponse(request, l) ==
  [status |-> 200, success |-> TRUE,
   message |-> "No relevant non-competitor events found after filtering",
   data_source |-> l.dataSource,
   raw_sources_processed |-> RawSourcesProcessed(request),
   events_extracted |-> Len(l.allPotentialEvents),
   events_after_gatekeeper |-> 0,
   competitor_events_filtered |-> Len(l.allPotentialEvents),
   events_final |-> 0,
   date_range |-> ShortRange(l)]

NoFinalResponse(request, l) ==
  [status |-> 200, success |-> TRUE,
   message |-> "No events met final quality standards",
   data_source |-> l.dataSource,
   raw_sources_processed |-> RawSourcesProcessed(request),
   events_extracted |-> Len(l.allPotentialEvents),
   events_after_gatekeeper |-> Len(l.filteredEvents),
   events_final |-> 0,
   date_range |-> ShortRange(l)]

\* an empty-roster response that does not count the events found (a faulty
\* variant of the one below)
NoWineriesResponseUncounted(request, l) ==
  [status |-> 200, success |-> TRUE,
   message |-> "No events met final quality standards",
   data_source |-> l.dataSource,
   events_found |-> 0,
   date_range |-> ShortRange(l),
   events |-> <<>>]

NoWineriesResponse(request, l) ==
  [status |-> 200, success |-> TRUE,
   message |-> "Events found but no wineries to generate briefs for",
   data_source |-> l.dataSource,
   events_found |-> Len(l.finalEvents),
   date_range |-> ShortRange(l),
   events |-> [i \in 1..Len(l.finalEvents) |->
                 [name      |-> l.finalEvents[i].event_name,
                  date      |-> l.finalEvents[i].event_date,
                  relevance |-> l.finalEvents[i].relevance_score,
                  source    |-> l.finalEvents[i].source_name,
                  url       |-> l.finalEvents[i].event_url]]]

FinalResponse(request, l) ==
  [status |-> 200, success |-> TRUE,
   message |-> "FIXED Event Engine complete",
   data_source |-> l.dataSource,
   raw_sources_processed |-> RawSourcesProcessed(request),
   events_extracted |-> Len(l.allPotentialEvents),
   events_after_gatekeeper |-> Len(l.filteredEvents),
   competitor_events_filtered |-> Len(l.allPotentialEvents) - Len(l.filteredEvents),
   events_final |-> Len(l.finalEvents),
   wineries_processed |-> Len(l.wineries),
   briefs_created |-> l.briefsCreatedCount,
   content_generated |-> 0,
   automatic_content_generation |-> FALSE,
   date_range |-> FullRange(l),
   events |-> [i \in 1..Len(l.finalEvents) |->
                 [name      |-> l.finalEvents[i].event_name,
                  date      |-> l.finalEvents[i].event_date,
                  location  |-> l.finalEvents[i].event_location,
                  relevance |-> l.finalEvents[i].relevance_score,
                  source    |-> l.finalEvents[i].source_name,
                  url       |-> l.finalEvents[i].event_url]],
   sources_processed |-> [i \in 1..RawSourcesProcessed(request) |->
                            [source_url     |-> request.raw_data[i].source_url,
                             content_length |-> Len(request.raw_data[i].raw_content)]]]

\* building sources_processed reads raw_content.length of every inline payload,
\* outside the try blocks of the loops: a payload without raw_content raises
SourcesProcessedThrows(request) ==
  request.has_raw /\ \E i \in 1..Len(request.raw_data) : ~request.raw_data[i].has_content

\* what a run that has finished its fan-out answers
Completion(request, l) ==
  IF SourcesProcessedThrows(request)
    THEN ErrorResponse("Cannot read properties of undefined (reading 'length')")
    ELSE FinalResponse(request, l)

(***************************************************************************)
(* What the completion service may answer (the environment of the runs).   *)
(***************************************************************************)
\* the sub-sequences of a sequence
SubSequences(seq) ==
  {LET ids == SelectSeq([i \in 1..Len(seq) |-> i], LAMBDA i : i \in chosen)
   IN  [k \in 1..Len(ids) |-> seq[ids[k]]] : chosen \in SUBSET (1..Len(seq))}

Unanswered == {[kind |-> k, list |-> <<>>] : k \in FailedCall \cup DefaultedCall}

\* an event the service makes up
InventedEvent ==
  [title       |-> "Taste of Virginia Expo",
   description |-> "Made up by the service",
   link        |-> "https://invented.example/expo",
   published   |-> "",
   source_name |-> "Invented",
   source_url  |-> "https://invented.example",
   event_date  |-> NoDate]

\* the Gatekeeper replies: an admitted sub-sequence, or a list the prompt did
\* not ask for (an invented event, a repeated event, a rewritten link)
GatekeeperReplies(allPotentialEvents) ==
  Unanswered
    \cup {[kind |-> "listed", list |-> sub] : sub \in SubSequences(allPotentialEvents)}
    \cup {[kind |-> "listed", list |-> <<InventedEvent>>],
          [kind |-> "listed", list |-> allPotentialEvents \o <<allPotentialEvents[1]>>],
          [kind |-> "listed",
           list |-> <<[allPotentialEvents[1] EXCEPT !.link = "https://rewritten.example"]>>]}

\* how the service fills in score and date of one reply
EnrichmentProfiles ==
  {[score |-> 8, date |-> "kept"], [score |-> 6, date |-> "kept"],
   [score |-> 10, date |-> "kept"], [score |-> 5, date |-> "kept"],
   [score |-> 11, date |-> "kept"], [score |-> 8, date |-> "outside"],
   [score |-> 8, date |-> "missing"], [score |-> 8, date |-> "text"]}

Enriched(event, profile, startDate, endDate) ==
  [event_name      |-> event.title,
   event_date      |-> CASE profile.date = "kept" ->
                              IF event.event_date.kind = "date" THEN event.event_date
                              ELSE DateAt(DayOf(startDate))
                         [] profile.date = "outside" -> DateAt(DayOf(endDate) + 24)
                         [] profile.date = "missing" -> NoDate
                         [] profile.date = "text" -> TextDate,
   event_location  |-> "Leesburg, VA",
   event_summary   |-> "A draw for wine buyers",
   event_url       |-> event.link,
   relevance_score |-> profile.score,
   source_url      |-> event.source_url,
   source_name     |-> event.source_name]

EnrichmentReplies(filteredEvents, startDate, endDate) ==
  Unanswered
    \cup {[kind |-> "listed",
           list |-> [i \in 1..Len(sub) |-> Enriched(sub[i], profile, startDate, endDate)]] :
            sub \in SubSequences(filteredEvents), profile \in EnrichmentProfiles}

(***************************************************************************)
(* Gatekeeper: from the count of the candidates to the count of the        *)
(* filtered events.                                                        *)
(***************************************************************************)
\* a Gatekeeper block after which the handler goes on to the Enhanced Analysis
\* with an empty list too (a faulty variant of the one below)
GatekeeperGoingOn(r) ==
  /\ pc[r] = "gatekeeper"
  /\ UNCHANGED <<now, openaiApiKey, raw_events, winery_profiles, research_briefs, req,
                 faults>>
  /\ IF local[r].allPotentialEvents = <<>>
       THEN /\ Respond(r, NoEventsResponse(req[r], local[r]))
            /\ UNCHANGED <<local, trace>>
       ELSE \E outcome \in IF openaiApiKey
                             THEN GatekeeperReplies(local[r].allPotentialEvents)
                             ELSE {[kind |-> "no_call", list |-> <<>>]} :
              /\ local' = [local EXCEPT ![r] =
                    [@ EXCEPT !.filteredEvents =
                                 GatekeeperResult(openaiApiKey, outcome,
                                                  local[r].allPotentialEvents)]]
              /\ IF openaiApiKey
                   THEN Log(r, [op |-> "gatekeeper_call", kind |-> outcome.kind,
                                input |-> local[r].allPotentialEvents])
                   ELSE trace' = trace
              /\ pc' = [pc EXCEPT ![r] = "enrichment"]
              /\ resp' = resp

Gatekeeper(r) ==
  /\ pc[r] = "gatekeeper"
  /\ UNCHANGED <<now, openaiApiKey, raw_events, winery_profiles, research_briefs, req,
                 faults>>
  /\ IF local[r].allPotentialEvents = <<>>
       THEN /\ Respond(r, NoEventsResponse(req[r], local[r]))
            /\ UNCHANGED <<local, trace>>
       ELSE \E outcome \in IF openaiApiKey
                             THEN GatekeeperReplies(local[r].allPotentialEvents)
                             ELSE {[kind |-> "no_call", list |-> <<>>]} :
              LET filteredEvents == GatekeeperResult(openaiApiKey, outcome,
                                                     local[r].allPotentialEvents)
                  after == [local[r] EXCEPT !.filteredEvents = filteredEvents]
              IN  /\ local' = [local EXCEPT ![r] = after]
                  /\ IF openaiApiKey
                       THEN Log(r, [op |-> "gatekeeper_call", kind |-> outcome.kind,
                                    input |-> local[r].allPotentialEvents])
                       ELSE trace' = trace
                  /\ IF filteredEvents = <<>>
                       THEN Respond(r, NoRelevantResponse(req[r], after))
                       ELSE /\ pc' = [pc EXCEPT ![r] = "enrichment"]
                            /\ resp' = resp

(***************************************************************************)
(* Enrichment: the Enhanced Analysis block and the count of its result.    *)
(***************************************************************************)
Enrichment(r) ==
  /\ pc[r] = "enrichment"
  /\ UNCHANGED <<now, openaiApiKey, raw_events, winery_profiles, research_briefs, req,
                 faults>>
  /\ \E outcome \in IF openaiApiKey
                      THEN EnrichmentReplies(local[r].filteredEvents,
                                             local[r].startDate, local[r].endDate)
                      ELSE {[kind |-> "no_call", list |-> <<>>]} :
       LET finalEvents == EnrichmentResult(openaiApiKey, outcome,
                                           local[r].filteredEvents, now)
           after == [local[r] EXCEPT !.finalEvents = finalEvents]
       IN  /\ local' = [local EXCEPT ![r] = after]
           /\ IF openaiApiKey
                THEN Log(r, [op |-> "enrichment_call", kind |-> outcome.kind,
                             input |-> local[r].filteredEvents])
                ELSE trace' = trace
           /\ IF finalEvents = <<>>
                THEN Respond(r, NoFinalResponse(req[r], after))
                ELSE /\ pc' = [pc EXCEPT ![r] = "roster"]
                     /\ resp' = resp

(***************************************************************************)
(* ReadRoster: the select of the winery profiles.                          *)
(***************************************************************************)
ReadRoster(r) ==
  /\ pc[r] = "roster"
  /\ UNCHANGED <<now, openaiApiKey, raw_events, winery_profiles, research_briefs, req>>
  /\ \E failed \in Failing :
       /\ Fault(failed)
       /\ Log(r, [op |-> "select_wineries", ok |-> ~failed])
       /\ IF failed
            THEN /\ Respond(r, ErrorResponse("Failed to fetch wineries"))
                 /\ UNCHANGED local
            ELSE LET after == [local[r] EXCEPT !.wineries = winery_profiles,
                                               !.eventIdx = 1, !.wineryIdx = 1,
                                               !.briefsCreatedCount = 0]
                 IN  /\ local' = [local EXCEPT ![r] = after]
                     /\ IF winery_profiles = <<>>
                          THEN Respond(r, NoWineriesResponse(req[r], after))
                          ELSE /\ pc' = [pc EXCEPT ![r] = "fanout"]
                               /\ resp' = resp

(***************************************************************************)
(* CreateBrief: one turn of the fan-out loops, and the final response      *)
(* after the last turn.                                                    *)
(***************************************************************************)
InsertOutcomes == {"ok", "error", "throws"}

CreateBrief(r) ==
  /\ pc[r] = "fanout"
  /\ UNCHANGED <<now, openaiApiKey, raw_events, winery_profiles, req>>
  /\ LET l      == local[r]
         event  == l.finalEvents[l.eventIdx]
         winery == l.wineries[l.wineryIdx]
         lastW  == l.wineryIdx = Len(l.wineries)
         lastE  == l.eventIdx = Len(l.finalEvents)
     IN  \E outcome \in IF BriefThrows(event) THEN {"no_insert"}
                         ELSE {o \in InsertOutcomes : o = "ok" \/ TRUE \in Failing} :
           LET after == [l EXCEPT !.briefsCreatedCount =
                                     IF outcome = "ok" THEN @ + 1 ELSE @,
                                  !.wineryIdx = IF lastW THEN 1 ELSE @ + 1,
                                  !.eventIdx = IF lastW THEN @ + 1 ELSE @]
           IN  /\ Fault(outcome \in {"error", "throws"})
               /\ research_briefs' =
                    IF outcome = "ok"
                      THEN Append(research_briefs,
                                  WineryBrief(event, winery, l.dataSource,
                                              l.startDate, l.endDate, now))
                      ELSE research_briefs
               /\ IF outcome = "no_insert" THEN trace' = trace
                  ELSE Log(r, [op |-> "insert_brief", event |-> l.eventIdx,
                               winery |-> winery, ok |-> outcome = "ok"])
               /\ local' = [local EXCEPT ![r] = after]
               /\ IF lastW /\ lastE
                    THEN Respond(r, Completion(req[r], after))
                    ELSE UNCHANGED <<pc, resp>>

(***************************************************************************)
(* The ingest-raw-events handler: the push of the feed collector.  A push  *)
(* body is malformed (no JSON), the JSON null, a JSON scalar, an object    *)
(* without events, an object whose events is no array, or an object with a *)
(* list of items; an item is the JSON null or an object whose missing      *)
(* fields are "".                                                          *)
(***************************************************************************)
BatchSize == 50

MaxTitleLength == 500

NullItem == [null |-> TRUE]

PushItem(title, description, link, pubDate) ==
  [null |-> FALSE, title |-> title, description |-> description, link |-> link,
   pubDate |-> pubDate]

\* a validation that wants more than five characters, as the title test of the
\* Candidate Builder does (a faulty variant of the one below)
ItemAcceptedOverFive(event) ==
  /\ event.title # "" /\ event.description # ""
  /\ Len(event.title) > MinTitleLength /\ Len(event.title) <= MaxTitleLength

\* the per-item validation of the push
ItemAccepted(event) ==
  /\ event.title # "" /\ event.description # ""
  /\ ~(Len(event.title) < MinTitleLength \/ Len(event.title) > MaxTitleLength)

\* rawContent of an accepted item
RawContentText(event) ==
  "Title: " \o event.title
    \o "\nDescription: " \o event.description
    \o "\nLink: " \o (IF event.link # "" THEN event.link ELSE "No link provided")
    \o "\nPublished: " \o (IF event.pubDate # "" THEN event.pubDate ELSE "No date provided")

\* the <item> blocks the Markup Extractor finds in a stored text: none in a
\* text without "<item" (the items of the model's pushes hold no markup; a
\* text with markup is outside the model)
ItemBlocksIn(text) ==
  CASE ~Includes(ToLowerCase(text), "<item") -> <<>>

\* the source label of a host name
HostLabel(hostname) ==
  IF Includes(hostname, "visitloudoun") THEN "Visit Loudoun Events"
  ELSE IF Includes(hostname, "fxva.com") THEN "FXVA Events"
  ELSE IF Includes(hostname, "virginia.org") THEN "Virginia Tourism Events"
  ELSE IF Includes(hostname, "visitpwc") THEN "Prince William County Events"
  ELSE IF Includes(hostname, "visitfauquier") THEN "Visit Fauquier Events"
  ELSE IF Includes(hostname, "northernvirginiamag") THEN "Northern Virginia Magazine Events"
  ELSE IF Includes(hostname, "discoverclarkecounty") THEN "Discover Clarke County Events"
  ELSE hostname

\* sourceName of an item, from its link
IngestSourceName(link) ==
  IF link = "" THEN "Unknown Source"
  ELSE IF ~ValidUrl(link) THEN "Invalid URL Source"
  ELSE HostLabel(ToLowerCase(Hostname(link)))

\* the row pushed onto rawEventsToInsert for an accepted item
RowToInsert(event) ==
  [source_url   |-> IF event.link # "" THEN event.link ELSE "https://google-apps-script-source",
   source_name  |-> IngestSourceName(event.link),
   raw_content  |-> ItemBlocksIn(RawContentText(event)),
   is_processed |-> FALSE]

RowsToInsert(events) ==
  LET accepted == SelectSeq(events, ItemAccepted)
  IN  [i \in 1..Len(accepted) |-> RowToInsert(accepted[i])]

IngestLocal ==
  [rawEventsToInsert |-> <<>>, i |-> 0, totalInserted |-> 0, insertedEvents |-> <<>>,
   skippedEventCount |-> 0]

\* the body of the push handler's 500 response
IngestErrorResponse(message) ==
  [status |-> 500, error |-> "Internal server error", details |-> message,
   timestamp |-> now]

InvalidPayloadResponse ==
  [status |-> 400, error |-> "Missing required field: events (must be an array)"]

NoEventsToProcessResponse ==
  [status |-> 200, success |-> TRUE, message |-> "No events to process",
   events_processed |-> 0]

NoValidEventsResponse(events) ==
  [status |-> 200, success |-> TRUE, message |-> "No valid events found to process",
   events_received |-> Len(events), events_processed |-> 0,
   events_skipped |-> Len(events)]

\* a response that counts the rows handed to the table, inserted or not (a
\* faulty variant of the one below)
IngestedResponseCountingAttempts(events, l) ==
  [status |-> 200, success |-> TRUE,
   message |-> "Successfully ingested " \o ToString(Len(l.rawEventsToInsert))
                 \o " events from Google Apps Script",
   events_received   |-> Len(events),
   events_processed  |-> Len(l.rawEventsToInsert),
   events_skipped    |-> l.skippedEventCount,
   batches_processed |-> (Len(l.rawEventsToInsert) + BatchSize - 1) \div BatchSize,
   data              |-> l.insertedEvents,
   sources_summary   |-> {l.insertedEvents[k].source_name : k \in 1..Len(l.insertedEvents)}]

IngestedResponse(events, l) ==
  [status |-> 200, success |-> TRUE,
   message |-> "Successfully ingested " \o ToString(l.totalInserted)
                 \o " events from Google Apps Script",
   events_received   |-> Len(events),
   events_processed  |-> l.totalInserted,
   events_skipped    |-> l.skippedEventCount,
   batches_processed |-> (Len(l.rawEventsToInsert) + BatchSize - 1) \div BatchSize,
   data              |-> l.insertedEvents,
   sources_summary   |-> {l.insertedEvents[k].source_name : k \in 1..Len(l.insertedEvents)}]

\* the handler from the parse of the body to the end of the per-item loop
ReceivePush(r) ==
  /\ pc[r] = "push_start"
  /\ UNCHANGED <<now, openaiApiKey, raw_events, winery_profiles, research_briefs,
                 req, trace, faults>>
  /\ CASE req[r].kind = "malformed" ->
            /\ Respond(r, IngestErrorResponse("Unexpected end of JSON input"))
            /\ UNCHANGED local
       [] req[r].kind = "null" ->
            /\ Respond(r, IngestErrorResponse(
                             "Cannot read properties of null (reading 'events')"))
            /\ UNCHANGED local
       [] req[r].kind \in {"scalar", "no_events", "events_not_array"} ->
            /\ Respond(r, InvalidPayloadResponse)
            /\ UNCHANGED local
       [] req[r].kind = "events" /\ req[r].events = <<>> ->
            /\ Respond(r, NoEventsToProcessResponse)
            /\ UNCHANGED local
       [] req[r].kind = "events" /\ req[r].events # <<>> ->
            IF \E k \in 1..Len(req[r].events) : req[r].events[k].null
              THEN /\ Respond(r, IngestErrorResponse(
                                    "Cannot read properties of null (reading 'title')"))
                   /\ UNCHANGED local
            ELSE IF RowsToInsert(req[r].events) = <<>>
              THEN /\ Respond(r, NoValidEventsResponse(req[r].events))
                   /\ UNCHANGED local
            ELSE /\ local' = [local EXCEPT ![r] =
                       [IngestLocal EXCEPT
                          !.rawEventsToInsert = RowsToInsert(req[r].events),
                          !.skippedEventCount =
                             Len(req[r].events) - Len(RowsToInsert(req[r].events))]]
                 /\ pc' = [pc EXCEPT ![r] = "insert_batch"]
                 /\ resp' = resp

\* the rows insert(batch).select(...) returns: ids are positions in the table
InsertedData(table, batch) ==
  [k \in 1..Len(batch) |-> [id |-> Len(table) + k, source_name |-> batch[k].source_name,
                             content_length |-> 0]]

\* one turn of the batch loop, and the response after the last turn
InsertBatch(r) ==
  /\ pc[r] = "insert_batch"
  /\ UNCHANGED <<now, openaiApiKey, winery_profiles, research_briefs, req>>
  /\ LET l     == local[r]
         last  == IF l.i + BatchSize < Len(l.rawEventsToInsert)
                    THEN l.i + BatchSize ELSE Len(l.rawEventsToInsert)
         batch == SubSeq(l.rawEventsToInsert, l.i + 1, last)
     IN  \E outcome \in {o \in InsertOutcomes : o = "ok" \/ TRUE \in Failing} :
           LET after == [l EXCEPT !.i = @ + BatchSize,
                                  !.totalInserted =
                                     IF outcome = "ok" THEN @ + Len(batch) ELSE @,
                                  !.insertedEvents =
                                     IF outcome = "ok"
                                       THEN @ \o InsertedData(raw_events, batch) ELSE @]
           IN  /\ Fault(outcome # "ok")
               /\ raw_events' = IF outcome = "ok" THEN raw_events \o batch ELSE raw_events
               /\ Log(r, [op |-> "insert_raw_events", rows |-> Len(batch),
                          ok |-> outcome = "ok"])
               /\ local' = [local EXCEPT ![r] = after]
               /\ IF last = Len(l.rawEventsToInsert)
                    THEN Respond(r, IngestedResponse(req[r].events, after))
                    ELSE UNCHANGED <<pc, resp>>

(***************************************************************************)
(* The inputs of the model: clock, feeds, requests, tables.                *)
(***************************************************************************)
MaxRows == 2

MaxTenants == 2

Clock == ParseDate("2025-01-10T09:00:00Z")

FestivalFeed ==
  << Block("Loudoun Wine Festival 3/15/2025", "Tastings and music",
           "https://www.visitloudoun.org/event/wine-festival", "", ""),
     Block("CompetitorCo Anniversary Party", "", "", "",
           "https://www.visitloudoun.org/?p=77") >>

FairFeed ==
  << Block("Spring Fair 4/5/2025", "Rides &amp; food", "", "2025-01-02", ""),
     Block("Gala!", "A title of five characters", "", "", "") >>

FestivalPayload ==
  [source_url |-> "https://www.visitloudoun.org/event/rss/", has_content |-> TRUE,
   raw_content |-> FestivalFeed]

FairPayload ==
  [source_url |-> "https://fairs.example.org/feed", has_content |-> TRUE,
   raw_content |-> FairFeed]

BadUrlPayload ==
  [source_url |-> "fairs feed", has_content |-> TRUE, raw_content |-> FairFeed]

NoContentPayload ==
  [source_url |-> "https://www.visitloudoun.org/event/rss/", has_content |-> FALSE,
   raw_content |-> <<>>]

RawDataChoices ==
  {<<>>, <<FestivalPayload>>, <<FairPayload>>, <<BadUrlPayload, FestivalPayload>>,
   <<FairPayload, NoContentPayload>>}

DateRanges ==
  {[start_date |-> "2025-03-01", end_date |-> "2025-03-31"],
   [start_date |-> "2030-01-01", end_date |-> "2030-12-31"]}

Malformed == [body |-> "malformed"]

ScanRequest(hasRange, range, hasRaw, rawData) ==
  [body |-> "json", has_range |-> hasRange, date_range |-> range,
   has_raw |-> hasRaw, raw_data |-> rawData]

NoRange == [start_date |-> "", end_date |-> ""]

InlineRequests ==
  {ScanRequest(TRUE, range, TRUE, rawData) : range \in DateRanges, rawData \in RawDataChoices}
    \cup {ScanRequest(FALSE, NoRange, TRUE, rawData) : rawData \in RawDataChoices}

StoredRequests ==
  {ScanRequest(TRUE, range, FALSE, <<>>) : range \in DateRanges}
    \cup {ScanRequest(FALSE, NoRange, FALSE, <<>>)}

\* a row as the ingestion push writes it (plain text, no <item> block), and a
\* row holding a feed document
RowContents ==
  {[source_url |-> "https://www.visitloudoun.org/event/wine-festival",
    source_name |-> "Visit Loudoun Events", raw_content |-> <<>>],
   [source_url |-> "https://www.visitloudoun.org/event/rss/",
    source_name |-> "", raw_content |-> SubSeq(FestivalFeed, 1, 1)]}

Rows ==
  {[source_url |-> c.source_url, source_name |-> c.source_name,
    raw_content |-> c.raw_content, is_processed |-> p] :
     c \in RowContents, p \in BOOLEAN}

Tables == UNION {[1..n -> Rows] : n \in 0..MaxRows}

Rosters == {[i \in 1..n |-> "winery" \o ToString(i)] : n \in 0..MaxTenants}

\* the tables and the idle handlers before any request is served
Quiet ==
  /\ now = Clock
  /\ winery_profiles \in Rosters
  /\ research_briefs = <<>>
  /\ local = [r \in Runs |-> InitialLocal]
  /\ resp = [r \in Runs |-> NoResponse]
  /\ trace = [r \in Runs |-> <<>>]

OneRequest(request) ==
  /\ req = [r \in Runs |-> IF r = "run1" THEN request ELSE NoRequest]
  /\ pc = [r \in Runs |-> IF r = "run1" THEN "start" ELSE "idle"]

\* one request in flight, served by run1: an inline request with or without
\* an API key, or a stored-path request over any table without one
Init ==
  /\ Quiet
  /\ faults = 0
  /\ \/ /\ openaiApiKey \in BOOLEAN
        /\ raw_events \in {t \in Tables : Len(t) = 1 /\ ~t[1].is_processed}
        /\ \E request \in {Malformed} \cup InlineRequests : OneRequest(request)
     \/ /\ openaiApiKey = FALSE
        /\ raw_events \in Tables
        /\ \E request \in StoredRequests : OneRequest(request)
     \/ /\ openaiApiKey = TRUE
        /\ raw_events \in {t \in Tables : Len(t) <= 1}
        /\ \E request \in StoredRequests : OneRequest(request)

Next ==
  \E r \in Runs :
    \/ Receive(r)
    \/ ReadRawEvents(r)
    \/ ExtractStored(r)
    \/ Gatekeeper(r)
    \/ Enrichment(r)
    \/ ReadRoster(r)
    \/ CreateBrief(r)

Spec == Init /\ [][Next]_vars

(***************************************************************************)
(* Two overlapping runs of the stored path (no API key) serving the same   *)
(* request over a table of unread rows, and no storage call failing:       *)
(* the handler holds no lease on the rows it reads.                        *)
(***************************************************************************)
InitRace ==
  /\ Quiet
  /\ faults = MaxFaults
  /\ openaiApiKey = FALSE
  /\ raw_events \in {t \in Tables : t # <<>> /\ \A i \in 1..Len(t) : ~t[i].is_processed}
  /\ \E request \in StoredRequests : req = [r \in Runs |-> request]
  /\ pc = [r \in Runs |-> "start"]

SpecRace == InitRace /\ [][Next]_vars

(***************************************************************************)
(* Two runs of the stored path (no API key) over a table of one row, in    *)
(* any interleaving - one after the other included - while storage calls   *)
(* may fail.                                                               *)
(***************************************************************************)
InitRerun ==
  /\ Quiet
  /\ faults = 0
  /\ openaiApiKey = FALSE
  /\ raw_events \in {t \in Tables : Len(t) = 1}
  /\ \E request \in StoredRequests : req = [r \in Runs |-> request]
  /\ pc = [r \in Runs |-> "start"]

SpecRerun == InitRerun /\ [][Next]_vars

(***************************************************************************)
(* The Candidate Builder on one inline payload: titles around the length   *)
(* bounds, dates on and around the bounds of the window.  No API key, no   *)
(* tenants, so a run ends after the roster read.                           *)
(***************************************************************************)
Ten == "Vineyards "

Hundred == Ten \o Ten \o Ten \o Ten \o Ten \o Ten \o Ten \o Ten \o Ten \o Ten

Title500 == SubSeq(Hundred \o Hundred \o Hundred \o Hundred \o Hundred, 1, 499) \o "!"

Title501 == Title500 \o "!"

TitleChoices ==
  {"Gala", "Gala!", "Gala!!", Title500, Title501,
   "Loudoun Wine Festival 3/15/2025", "CompetitorCo Anniversary Party"}

InlineFeeds ==
  {<<Block(title, "", "", "", "")>> : title \in TitleChoices}
    \cup {FestivalFeed, FairFeed}

InlineWindows ==
  {[start_date |-> "2025-03-01", end_date |-> "2025-03-31"],
   [start_date |-> "2025-03-15", end_date |-> "2025-03-31"],
   [start_date |-> "2025-03-01", end_date |-> "2025-03-15"],
   [start_date |-> "2025-03-16", end_date |-> "2025-03-31"],
   [start_date |-> "2025-03-01", end_date |-> "2025-03-14"]}

OnePayload(feed) ==
  <<[source_url |-> "https://www.visitloudoun.org/event/rss/", has_content |-> TRUE,
     raw_content |-> feed]>>

InitInline ==
  /\ Quiet
  /\ faults = 0
  /\ winery_profiles = <<>>
  /\ openaiApiKey = FALSE
  /\ raw_events = <<>>
  /\ \E feed \in InlineFeeds :
       \/ \E range \in InlineWindows :
            OneRequest(ScanRequest(TRUE, range, TRUE, OnePayload(feed)))
       \/ OneRequest(ScanRequest(FALSE, NoRange, TRUE, OnePayload(feed)))

NextInline ==
  \E r \in Runs :
    \/ Receive(r)
    \/ Gatekeeper(r)
    \/ Enrichment(r)
    \/ ReadRoster(r)

SpecInline == InitInline /\ [][NextInline]_vars

(***************************************************************************)
(* The Date Heuristic on one inline item: a title holding one written      *)
(* date (or none), a pubDate hint, two clocks, and a window wide enough to *)
(* keep every dated item.  No API key, no tenants.                         *)
(***************************************************************************)
\* a title and the date written in it: year 0 when no year is written
Written(text, year, month, day) ==
  [text |-> text, year |-> year, month |-> month, day |-> day]

\* dates written with a year, in the three forms
ExplicitYearTexts ==
  {Written("Fest 3/15/2025", 2025, 3, 15), Written("Fest 3-15-2026", 2026, 3, 15),
   Written("Fest 12/31/2027", 2027, 12, 31), Written("Fest March 15, 2025", 2025, 3, 15),
   Written("Fest july 4 2026", 2026, 7, 4), Written("Fest 15 March 2025", 2025, 3, 15),
   Written("Fest 3/15/2020", 2020, 3, 15), Written("Fest March 15, 2020", 2020, 3, 15),
   Written("Fest 15 March 2020", 2020, 3, 15), Written("Fest 3/15/2030", 2030, 3, 15)}

\* dates written without a year
NoYearTexts ==
  {Written("Fest March 15", 0, 3, 15), Written("Fest 3/15", 0, 3, 15),
   Written("Fest 15 March", 0, 3, 15), Written("Fest December 5", 0, 12, 5),
   Written("Fest 7-4", 0, 7, 4)}

\* a month outside 1..12 or a day outside 1..31
OutOfRangeTexts ==
  {Written("Fest 13/15/2025", 2025, 13, 15), Written("Fest 3/45/2025", 2025, 3, 45),
   Written("Fest 3/0/2026", 2026, 3, 0), Written("Fest March 45", 0, 3, 45),
   Written("Fest 0/15/2025", 2025, 0, 15)}

\* no date at all
UndatedTexts == {Written("Wine tasting evening", 0, 0, 0)}

DateTexts == ExplicitYearTexts \cup NoYearTexts \cup OutOfRangeTexts \cup UndatedTexts

PubDates == {"", "2025-01-02", "2024-06-01T10:00:00Z", "2023-12-31", "soon"}

DateClocks == {ParseDate("2025-01-10T09:00:00Z"), ParseDate("2026-06-01T00:00:00Z")}

WideWindow == [start_date |-> "2020-01-01", end_date |-> "2035-12-31"]

InitDate ==
  /\ now \in DateClocks
  /\ winery_profiles = <<>>
  /\ research_briefs = <<>>
  /\ local = [r \in Runs |-> InitialLocal]
  /\ resp = [r \in Runs |-> NoResponse]
  /\ trace = [r \in Runs |-> <<>>]
  /\ faults = 0
  /\ openaiApiKey = FALSE
  /\ raw_events = <<>>
  /\ \E w \in DateTexts, pubDate \in PubDates :
       OneRequest(ScanRequest(TRUE, WideWindow, TRUE,
                              OnePayload(<<Block(w.text, "", "", pubDate, "")>>)))

SpecDate == InitDate /\ [][NextInline]_vars

(***************************************************************************)
(* One push of the feed collector over a table of earlier rows.            *)
(***************************************************************************)
Push(kind, events) == [body |-> "push", kind |-> kind, events |-> events]

FestivalItem ==
  PushItem("Loudoun Wine Festival 3/15/2025", "Tastings and music",
           "https://www.VisitLoudoun.org/event/wine-festival", "2025-01-02")

PushItems ==
  {FestivalItem,
   PushItem("Spring Fair 4/5/2025", "Rides and food", "", ""),
   PushItem("Harvest Market", "Weekly market", "market page", ""),
   PushItem("Harvest Market", "", "https://fairs.example.org/market", ""),
   PushItem("", "No title", "", ""),
   PushItem("Gala", "Four characters", "", ""),
   PushItem("Gala!", "Five characters", "", ""),
   PushItem(Title500, "Five hundred characters", "", ""),
   PushItem(Title501, "Five hundred and one characters", "", ""),
   NullItem}

PushRequests ==
  {Push(kind, <<>>) : kind \in {"malformed", "null", "scalar", "no_events",
                                 "events_not_array", "events"}}
    \cup {Push("events", <<item>>) : item \in PushItems}
    \cup {Push("events", <<FestivalItem, item>>) : item \in PushItems}
    \cup {Push("events", [k \in 1..n |-> FestivalItem]) : n \in {BatchSize, BatchSize + 1}}

InitIngest ==
  /\ Quiet
  /\ faults = 0
  /\ winery_profiles = <<>>
  /\ openaiApiKey = FALSE
  /\ raw_events \in {t \in Tables : Len(t) <= 1}
  /\ \E request \in PushRequests :
       /\ req = [r \in Runs |-> IF r = "run1" THEN request ELSE NoRequest]
       /\ pc = [r \in Runs |-> IF r = "run1" THEN "push_start" ELSE "idle"]

NextIngest == \E r \in Runs : ReceivePush(r) \/ InsertBatch(r)

SpecIngest == InitIngest /\ [][NextIngest]_vars

(***************************************************************************)
(* The Candidate Builder on one long inline feed: feeds of about a hundred *)
(* numbered items, one of which may have a title too short to be kept.     *)
(* No API key, no tenants.                                                 *)
(***************************************************************************)
FeedLengths == {1, ItemCap - 1, ItemCap, ItemCap + 1, ItemCap + 2, ItemCap + 50}

\* the positions at which a long feed may hold an item with a short title
ShortTitleAt == {0, 1, ItemCap, ItemCap + 1}

LongFeed(n, short) ==
  [k \in 1..n |-> Block(IF k = short THEN "Gala" ELSE "Harvest Day " \o ToString(k),
                         "", "", "", "")]

InitCap ==
  /\ Quiet
  /\ faults = 0
  /\ winery_profiles = <<>>
  /\ openaiApiKey = FALSE
  /\ raw_events = <<>>
  /\ \E n \in FeedLengths, short \in ShortTitleAt :
       \/ OneRequest(ScanRequest(FALSE, NoRange, TRUE, OnePayload(LongFeed(n, short))))
       \/ \E range \in DateRanges :
            OneRequest(ScanRequest(TRUE, range, TRUE, OnePayload(LongFeed(n, short))))

SpecCap == InitCap /\ [][NextInline]_vars

(***************************************************************************)
(* The pipeline: a push of the feed collector (run1) and a scan (run2) in  *)
(* any interleaving over a table of earlier rows, no API key.              *)
(***************************************************************************)
PipelinePushes ==
  {Push("events", <<FestivalItem>>),
   Push("events", <<FestivalItem, PushItem("Spring Fair 4/5/2025", "Rides and food", "", "")>>),
   Push("events", <<PushItem("Gala", "Four characters", "", "")>>),
   Push("null", <<>>)}

PipelineScans ==
  StoredRequests \cup {ScanRequest(FALSE, NoRange, TRUE, <<FestivalPayload>>)}

InitPipeline ==
  /\ Quiet
  /\ faults = 0
  /\ openaiApiKey = FALSE
  /\ raw_events \in {t \in Tables : Len(t) <= 1}
  /\ \E push \in PipelinePushes, scan \in PipelineScans :
       /\ req = [r \in Runs |-> IF r = "run1" THEN push ELSE scan]
       /\ pc = [r \in Runs |-> IF r = "run1" THEN "push_start" ELSE "start"]

NextPipeline ==
  \E r \in Runs :
    \/ ReceivePush(r)
    \/ InsertBatch(r)
    \/ Receive(r)
    \/ ReadRawEvents(r)
    \/ ExtractStored(r)
    \/ Gatekeeper(r)
    \/ Enrichment(r)
    \/ ReadRoster(r)
    \/ CreateBrief(r)

SpecPipeline == InitPipeline /\ [][NextPipeline]_vars

(***************************************************************************)
(* Properties.                                                             *)
(***************************************************************************)
AfterGatekeeper == {"enrichment", "roster", "fanout", "done"}

AfterEnrichment == {"roster", "fanout", "done"}

\* the external calls of kind op a run has made
Calls(r, op) == SelectSeq(trace[r], LAMBDA e : e.op = op)

\* how the run's call to the service for the stage ended ("no_call": no key)
CallKind(r, op) == IF Calls(r, op) = <<>> THEN "no_call" ELSE Calls(r, op)[1].kind

\* the endings that give the handler no list of events
NoList == {"no_call"} \cup FailedCall \cup DefaultedCall

Field(response, name) == name \in DOMAIN response

\* C1: Gatekeeper fail-open.  With a non-empty candidate set, when there is
\* no API key, the service is unreachable, answers with a non-OK status, or
\* answers with output holding no relevant_events list (invalid JSON, missing
\* choices, missing or empty message content, missing relevant_events key),
\* the set handed to Enrichment is the whole candidate set, unchanged, and
\* events_after_gatekeeper = events_extracted.
C1_GatekeeperFailOpen ==
  \A r \in Runs :
    (/\ pc[r] \in AfterGatekeeper
     /\ local[r].allPotentialEvents # <<>>
     /\ CallKind(r, "gatekeeper_call") \in NoList)
      => /\ local[r].filteredEvents = local[r].allPotentialEvents
         /\ Field(resp[r], "events_after_gatekeeper")
              => resp[r].events_after_gatekeeper = resp[r].events_extracted

\* the fields the fallback synthesis is said to give an event
Synthesis(event) ==
  [event_name      |-> event.title,
   event_summary   |-> event.description,
   event_url       |-> event.link,
   relevance_score |-> 7,
   event_date      |-> IF event.event_date.kind = "date" THEN event.event_date
                       ELSE DateAt(DayOf(now + 30 * 24))]

SynthesisFields(final) ==
  [event_name      |-> final.event_name,
   event_summary   |-> final.event_summary,
   event_url       |-> final.event_url,
   relevance_score |-> final.relevance_score,
   event_date      |-> final.event_date]

\* C2: Enrichment fallback.  When the Gatekeeper output is non-empty and the
\* Enrichment call fails (no API key, non-OK status, thrown error, unparsable
\* or empty output), the final events are one per gatekept candidate, in the
\* same order, with event_name = title, event_summary = description,
\* event_url = link, relevance_score = 7 and event_date the candidate's date
\* or else the day 30 days after now; so events_final =
\* events_after_gatekeeper > 0.
C2_EnrichmentFallback ==
  \A r \in Runs :
    (/\ pc[r] \in AfterEnrichment
     /\ local[r].filteredEvents # <<>>
     /\ CallKind(r, "enrichment_call") \in NoList)
      => /\ Len(local[r].finalEvents) = Len(local[r].filteredEvents)
         /\ \A i \in 1..Len(local[r].finalEvents) :
              SynthesisFields(local[r].finalEvents[i]) = Synthesis(local[r].filteredEvents[i])
         /\ Field(resp[r], "events_final")
              => /\ resp[r].events_final = resp[r].events_after_gatekeeper
                 /\ resp[r].events_final > 0

\* C3: quality floor.  Every event for which the fan-out attempts an
\* insertion has a relevance_score from 6 to 10, whether it came from the
\* service's reply or from the fallback.
C3_QualityFloor ==
  \A r \in Runs :
    \A k \in 1..Len(Calls(r, "insert_brief")) :
      local[r].finalEvents[Calls(r, "insert_brief")[k].event].relevance_score \in 6..10

\* C4: every final event has an event_date inside the window (bounds
\* included) or descends from a candidate for which no date was derived, on
\* every data path and whether the service or the fallback produced it.
C4_FinalEventsInWindow ==
  \A r \in Runs :
    pc[r] \in AfterEnrichment =>
      \A i \in 1..Len(local[r].finalEvents) :
        \/ /\ local[r].finalEvents[i].event_date.kind = "date"
           /\ local[r].finalEvents[i].event_date.at >= local[r].startDate
           /\ local[r].finalEvents[i].event_date.at <= local[r].endDate
        \/ \E j \in 1..Len(local[r].allPotentialEvents) :
             /\ local[r].allPotentialEvents[j].title = local[r].finalEvents[i].event_name
             /\ local[r].allPotentialEvents[j].event_date.kind = "none"

\* C5: fan-out accounting.  With N final events and M >= 1 tenants the run
\* attempts N*M insertions, one per (event, tenant) pair; with K of them
\* failing the response is a 200 with success = true and briefs_created =
\* N*M - K, which is the number of brief rows the run persisted.
C5_FanOutAccounting ==
  \A r \in Runs :
    (pc[r] = "done" /\ Field(resp[r], "briefs_created")) =>
      /\ resp[r].status = 200 /\ resp[r].success
      /\ Len(Calls(r, "insert_brief")) = Len(local[r].finalEvents) * Len(local[r].wineries)
      /\ \A e \in 1..Len(local[r].finalEvents), w \in 1..Len(local[r].wineries) :
           Cardinality({k \in 1..Len(Calls(r, "insert_brief")) :
                          /\ Calls(r, "insert_brief")[k].event = e
                          /\ Calls(r, "insert_brief")[k].winery = local[r].wineries[w]}) = 1
      /\ resp[r].briefs_created =
           Len(local[r].finalEvents) * Len(local[r].wineries)
             - Len(SelectSeq(Calls(r, "insert_brief"), LAMBDA c : ~c.ok))
      /\ resp[r].briefs_created = Len(research_briefs)

\* C6: stored-path consumption.  When a run without inline raw_data has
\* completed, every row its read returned has is_processed = true (rows that
\* yielded no candidate included), and the run has issued exactly one flag
\* update for each of them.
C6_StoredRowsConsumed ==
  \A r \in Runs :
    (pc[r] = "done" /\ req[r].body = "json" /\ ~req[r].has_raw) =>
      \A i \in 1..Len(local[r].rawEvents) :
        /\ raw_events[local[r].rawEvents[i].id].is_processed
        /\ Cardinality({k \in 1..Len(Calls(r, "update_raw_event")) :
                          Calls(r, "update_raw_event")[k].id = local[r].rawEvents[i].id}) = 1

\* C7: no lease.  What a stored-path run does with the rows it has read does
\* not depend on their flags at the time: it issues a flag update for every
\* row it read, in order, and its candidates are those of all these rows -
\* also of rows another run has flagged in between.
C7_NoLease ==
  \A r \in Runs :
    pc[r] = "gatekeeper" /\ local[r].dataSource = "database_stored" =>
      /\ [k \in 1..Len(Calls(r, "update_raw_event")) |-> Calls(r, "update_raw_event")[k].id]
           = [k \in 1..Len(local[r].rawEvents) |-> local[r].rawEvents[k].id]
      /\ local[r].allPotentialEvents =
           Concat([k \in 1..Len(local[r].rawEvents) |->
                     extractRSSEvents(local[r].rawEvents[k].raw_content,
                                      local[r].rawEvents[k].source_url,
                                      IF local[r].rawEvents[k].source_name # ""
                                        THEN local[r].rawEvents[k].source_name
                                        ELSE local[r].rawEvents[k].source_url,
                                      local[r].startDate, local[r].endDate, now)])

\* C7 (case): a row both runs have read, extracted candidates from, flagged
\* with success and fanned out into briefs - the same brief twice
C7_DoubleProcessed ==
  \E id \in 1..Len(raw_events) :
    /\ \A r \in Runs :
         /\ pc[r] = "done"
         /\ \E i \in 1..Len(local[r].rawEvents) : local[r].rawEvents[i].id = id
         /\ \E k \in 1..Len(Calls(r, "update_raw_event")) :
              /\ Calls(r, "update_raw_event")[k].id = id
              /\ Calls(r, "update_raw_event")[k].ok
         /\ local[r].allPotentialEvents # <<>>
         /\ local[r].briefsCreatedCount > 0
    /\ \E a \in 1..Len(research_briefs), b \in 1..Len(research_briefs) :
         a < b /\ research_briefs[a] = research_briefs[b]

\* C8: the Gatekeeper output is a subset.  The events passed on to Enrichment
\* are events of the run's candidate set with all their fields unchanged, so
\* every response has events_after_gatekeeper <= events_extracted and
\* competitor_events_filtered = events_extracted - events_after_gatekeeper >= 0.
C8_GatekeeperSubset ==
  \A r \in Runs :
    pc[r] \in AfterGatekeeper =>
      /\ \A i \in 1..Len(local[r].filteredEvents) :
           \E j \in 1..Len(local[r].allPotentialEvents) :
             local[r].filteredEvents[i] = local[r].allPotentialEvents[j]
      /\ Field(resp[r], "events_after_gatekeeper")
           => resp[r].events_after_gatekeeper <= resp[r].events_extracted
      /\ Field(resp[r], "competitor_events_filtered")
           => /\ resp[r].competitor_events_filtered
                   = resp[r].events_extracted - resp[r].events_after_gatekeeper
              /\ resp[r].competitor_events_filtered >= 0

\* the events of the first inline payload of a run's request, before any test
PayloadEvents(r) ==
  [i \in 1..Len(req[r].raw_data[1].raw_content) |->
     BuildEvent(parseXML(req[r].raw_data[1].raw_content).items[i],
                req[r].raw_data[1].source_url,
                SourceName(req[r].raw_data[1].source_url), now)]

\* C9: title length.  Every candidate has a cleaned title of 5 to 500
\* characters, and an item whose cleaned title has exactly 5 or exactly 500
\* characters is not dropped for its length (it is a candidate when its date
\* is none or inside the window).
C9_TitleLength ==
  \A r \in Runs :
    pc[r] = "gatekeeper" /\ req[r].has_raw =>
      /\ \A i \in 1..Len(local[r].allPotentialEvents) :
           /\ Len(local[r].allPotentialEvents[i].title) >= 5
           /\ Len(local[r].allPotentialEvents[i].title) <= 500
      /\ \A i \in 1..Len(PayloadEvents(r)) :
           (/\ Len(PayloadEvents(r)[i].title) \in {5, 500}
            /\ \/ PayloadEvents(r)[i].event_date.kind = "none"
               \/ /\ PayloadEvents(r)[i].event_date.at >= local[r].startDate
                  /\ PayloadEvents(r)[i].event_date.at <= local[r].endDate)
             => \E j \in 1..Len(local[r].allPotentialEvents) :
                  local[r].allPotentialEvents[j] = PayloadEvents(r)[i]

\* C10: the Candidate Builder's date filter.  For one feed payload and a
\* window [start, end] the output is exactly the extracted items with an
\* acceptable title whose date is none, or is a date d with start <= d <= end;
\* an item dated outside the window is never output, an undated item never
\* dropped.
C10_DateFilter ==
  \A r \in Runs :
    pc[r] = "gatekeeper" /\ req[r].has_raw =>
      local[r].allPotentialEvents =
        SelectSeq(PayloadEvents(r),
                  LAMBDA e : /\ TitleAccepted(e.title)
                             /\ \/ e.event_date.kind = "none"
                                \/ /\ e.event_date.kind = "date"
                                   /\ e.event_date.at >= local[r].startDate
                                   /\ e.event_date.at <= local[r].endDate)

\* C10 (case): a payload with an item dated on a bound of the window and an
\* undated item, both in the output
C10_OnTheBound ==
  \E r \in Runs :
    /\ pc[r] = "gatekeeper" /\ req[r].has_raw
    /\ \E i \in 1..Len(local[r].allPotentialEvents) :
         /\ local[r].allPotentialEvents[i].event_date.kind = "date"
         /\ local[r].allPotentialEvents[i].event_date.at = local[r].endDate
    /\ \E i \in 1..Len(local[r].allPotentialEvents) :
         local[r].allPotentialEvents[i].event_date.kind = "none"
    /\ Len(local[r].allPotentialEvents) = Len(PayloadEvents(r))

\* midnight (UTC) of the calendar date y-m-d
Midnight(y, m, d) == DaysFromCivil(y, m, d) * 24

\* the written date of a candidate's title
WrittenIn(event) == CHOOSE w \in DateTexts : w.text = event.title

\* C11: explicit-year dates.  For a title whose only date is written with a
\* year (M/D/YYYY, Month D, YYYY or D Month YYYY) the date derived is the
\* written calendar date (whenever the written year is one the heuristic
\* accepts at all), and without a pubDate hint it is never a date of another
\* year than the written one.
C11_ExplicitYear ==
  \A r \in Runs :
    pc[r] = "gatekeeper" /\ req[r].has_raw =>
      \A i \in 1..Len(local[r].allPotentialEvents) :
        WrittenIn(local[r].allPotentialEvents[i]) \in ExplicitYearTexts =>
          /\ WrittenIn(local[r].allPotentialEvents[i]).year
                \in GetFullYear(now)..(GetFullYear(now) + 2)
               => local[r].allPotentialEvents[i].event_date =
                    DateAt(Midnight(WrittenIn(local[r].allPotentialEvents[i]).year,
                                    WrittenIn(local[r].allPotentialEvents[i]).month,
                                    WrittenIn(local[r].allPotentialEvents[i]).day))
          /\ (/\ local[r].allPotentialEvents[i].published = ""
              /\ local[r].allPotentialEvents[i].event_date.kind = "date")
               => GetFullYear(local[r].allPotentialEvents[i].event_date.at)
                    = WrittenIn(local[r].allPotentialEvents[i]).year

\* C12: a missing year is the current year.  For a title whose only date is
\* written without a year (Month D, D Month or M/D), read in year Y, the item
\* is a candidate dated Y-MM-DD.
C12_MissingYear ==
  \A r \in Runs :
    (/\ pc[r] = "gatekeeper" /\ req[r].has_raw
     /\ \E w \in NoYearTexts : w.text = req[r].raw_data[1].raw_content[1].title)
      => /\ Len(local[r].allPotentialEvents) = 1
         /\ local[r].allPotentialEvents[1].event_date =
              DateAt(Midnight(GetFullYear(now),
                              WrittenIn(local[r].allPotentialEvents[1]).month,
                              WrittenIn(local[r].allPotentialEvents[1]).day))

\* C12 (case): "March 15" read in 2026 has given a candidate dated 2026-03-15
C12_MarchFifteenth ==
  \E r \in Runs :
    /\ pc[r] = "gatekeeper" /\ GetFullYear(now) = 2026
    /\ Len(local[r].allPotentialEvents) = 1
    /\ local[r].allPotentialEvents[1].title = "Fest March 15"
    /\ local[r].allPotentialEvents[1].event_date = DateAt(ParseDate("2026-03-15"))

\* C13: plausibility window.  A date derived from the text has a year from Y
\* to Y + 2, and a written month outside 1..12 or a written day outside 1..31
\* is rejected: with no other date in the text and no pubDate hint the item
\* is undated, never dated by a rolled-over date.
C13_Plausibility ==
  \A r \in Runs :
    pc[r] = "gatekeeper" /\ req[r].has_raw =>
      \A i \in 1..Len(local[r].allPotentialEvents) :
        local[r].allPotentialEvents[i].published = "" =>
          /\ local[r].allPotentialEvents[i].event_date.kind = "date"
               => GetFullYear(local[r].allPotentialEvents[i].event_date.at)
                    \in GetFullYear(now)..(GetFullYear(now) + 2)
          /\ WrittenIn(local[r].allPotentialEvents[i]) \in OutOfRangeTexts
               => local[r].allPotentialEvents[i].event_date = NoDate

\* the titles in which no written date is ever accepted: no date at all, or a
\* date of a past year in the form D Month YYYY
NeverDatedTexts == UndatedTexts \cup {w \in ExplicitYearTexts : w.text = "Fest 15 March 2020"}

\* C14: pubDate fallback.  When no date of the text is accepted, the item is
\* dated by its pubDate hint if and only if the hint is a valid date of year
\* Y - 1 or later, and is otherwise a candidate without a date; when a date of
\* the text is accepted the hint is not used.
C14_PublishedFallback ==
  \A r \in Runs :
    pc[r] = "gatekeeper" /\ req[r].has_raw =>
      /\ Len(local[r].allPotentialEvents) = 1
      /\ WrittenIn(local[r].allPotentialEvents[1]) \in NeverDatedTexts
           => local[r].allPotentialEvents[1].event_date =
                IF /\ ParseDate(local[r].allPotentialEvents[1].published) # -1
                   /\ GetFullYear(ParseDate(local[r].allPotentialEvents[1].published))
                        >= GetFullYear(now) - 1
                  THEN DateAt(ParseDate(local[r].allPotentialEvents[1].published))
                  ELSE NoDate
      /\ WrittenIn(local[r].allPotentialEvents[1]) \in NoYearTexts
           => /\ local[r].allPotentialEvents[1].event_date.kind = "date"
              /\ local[r].allPotentialEvents[1].event_date.at
                   # ParseDate(local[r].allPotentialEvents[1].published)

\* C14 (case): a title whose written date is rejected, dated by a hint of the
\* year before the current one
C14_HintOfLastYear ==
  \E r \in Runs :
    /\ pc[r] = "gatekeeper" /\ GetFullYear(now) = 2025
    /\ Len(local[r].allPotentialEvents) = 1
    /\ local[r].allPotentialEvents[1].title = "Fest 15 March 2020"
    /\ local[r].allPotentialEvents[1].published = "2024-06-01T10:00:00Z"
    /\ local[r].allPotentialEvents[1].event_date = DateAt(ParseDate("2024-06-01T10:00:00Z"))

\* the run's read of the roster succeeded / failed
RosterRead(r) == Calls(r, "select_wineries") # <<>> /\ Calls(r, "select_wineries")[1].ok

RosterUnreadable(r) == Calls(r, "select_wineries") # <<>> /\ ~Calls(r, "select_wineries")[1].ok

\* C15: empty tenant roster.  When the final events are not empty and the
\* roster read succeeds with no tenant, the run inserts no brief and answers
\* 200 with success = true, the number of events found, and the message that
\* there are no wineries to generate briefs for.
C15_EmptyRoster ==
  \A r \in Runs :
    (pc[r] = "done" /\ RosterRead(r) /\ local[r].wineries = <<>>) =>
      /\ local[r].finalEvents # <<>>
      /\ Calls(r, "insert_brief") = <<>>
      /\ research_briefs = <<>>
      /\ resp[r].status = 200 /\ resp[r].success
      /\ resp[r].events_found = Len(local[r].finalEvents)
      /\ Len(resp[r].events) = Len(local[r].finalEvents)
      /\ resp[r].message = "Events found but no wineries to generate briefs for"

\* C15 (case): a run that ended on an empty roster with two events found
C15_TwoEventsNoTenant ==
  \E r \in Runs :
    /\ pc[r] = "done" /\ RosterRead(r) /\ winery_profiles = <<>>
    /\ Len(local[r].finalEvents) = 2
    /\ resp[r].status = 200 /\ resp[r].events_found = 2

\* an inline payload whose extraction raised inside the loop's try block
FeedFailed(request) ==
  /\ request.has_raw
  /\ \E i \in 1..Len(request.raw_data) :
       SourceNameThrows(request.raw_data[i].source_url) \/ ~request.raw_data[i].has_content

\* C16: unrecoverable errors.  A 500 response has the body {error, details};
\* a run that answers 500 has created no brief; and a run whose request body
\* is well-formed and whose roster read did not fail answers 500 only for an
\* exception that is no failure of the service, of a feed's extraction or of
\* a brief insertion: such failures alone never give a 500.  A malformed
\* body and an unreadable roster always give a 500.
C16_Unrecoverable ==
  \A r \in Runs :
    pc[r] = "done" =>
      /\ resp[r].status = 500 => DOMAIN resp[r] = {"status", "error", "details"}
      /\ (req[r].body = "malformed" \/ RosterUnreadable(r)) => resp[r].status = 500
      /\ resp[r].status = 500 =>
           \A k \in 1..Len(Calls(r, "insert_brief")) : ~Calls(r, "insert_brief")[k].ok
      /\ (resp[r].status = 500 /\ req[r].body = "json" /\ ~RosterUnreadable(r)) =>
           /\ ~FeedFailed(req[r])
           /\ CallKind(r, "gatekeeper_call") \notin FailedCall \cup DefaultedCall
           /\ CallKind(r, "enrichment_call") \notin FailedCall \cup DefaultedCall
           /\ \A k \in 1..Len(Calls(r, "insert_brief")) : Calls(r, "insert_brief")[k].ok

\* a step of run r
StepOf(r) == pc'[r] # pc[r] \/ local'[r] # local[r] \/ trace'[r] # trace[r]

\* C17: the inline path leaves the ingestion table alone.  No step of a run
\* whose request carries raw_data (an array, empty or not) reads raw_events
\* or changes a row of it, and every response of such a run that names a
\* data_source names the inline one.
C17_InlineLeavesStore ==
  [][\A r \in Runs :
       (req[r].body = "json" /\ req[r].has_raw /\ StepOf(r)) =>
         /\ raw_events' = raw_events
         /\ Calls(r, "select_raw_events")' = <<>>
         /\ Calls(r, "update_raw_event")' = <<>>
         /\ Field(resp'[r], "data_source")
              => resp'[r].data_source = "google_apps_script_direct"]_vars

\* C17 (case): an inline run that went through to its briefs while a row of
\* the ingestion table stayed unprocessed
C17_InlineRunCompleted ==
  \E r \in Runs :
    /\ pc[r] = "done" /\ req[r].body = "json" /\ req[r].has_raw
    /\ Field(resp[r], "briefs_created") /\ resp[r].briefs_created > 0
    /\ resp[r].data_source = "google_apps_script_direct"
    /\ raw_events # <<>> /\ \A i \in 1..Len(raw_events) : ~raw_events[i].is_processed

\* C18: response shape.  Every 200 response, at whichever stage the run ends,
\* carries success = true, data_source, the four counters events_extracted,
\* events_after_gatekeeper, events_final and briefs_created, and a date_range
\* with duration_days = ceil((end - start) / one day).
C18_ResponseShape ==
  \A r \in Runs :
    resp[r].status = 200 =>
      /\ resp[r].success
      /\ \A name \in {"data_source", "events_extracted", "events_after_gatekeeper",
                       "events_final", "briefs_created", "date_range"} :
           Field(resp[r], name)
      /\ Field(resp[r].date_range, "duration_days")
      /\ resp[r].date_range.duration_days
           = DurationDays(local[r].startDate, local[r].endDate)

\* C19: no fabricated events.  A brief is only ever about an event extracted
\* from an inline payload or a stored row: a run without inline payload that
\* gets no unprocessed row (none there, or the read failed) has no event to
\* write about, so it creates no brief and answers 200 with
\* events_extracted = 0 and the none-found data_source.
C19_NoFabricatedEvents ==
  \A r \in Runs :
    (pc[r] = "done" /\ req[r].body = "json" /\ ~req[r].has_raw /\ local[r].rawEvents = <<>>) =>
      /\ research_briefs = <<>>
      /\ Calls(r, "insert_brief") = <<>>
      /\ resp[r].status = 200
      /\ Field(resp[r], "events_extracted") /\ resp[r].events_extracted = 0
      /\ resp[r].data_source = "sample_events"

\* C20: push validation.  A push whose JSON body has no events field or
\* whose events is no array - a body that is JSON null or a scalar included -
\* is answered with 400 and an error text, and writes no row.
C20_PushValidation ==
  \A r \in Runs :
    (/\ pc[r] = "done" /\ req[r].body = "push"
     /\ req[r].kind \in {"null", "scalar", "no_events", "events_not_array"})
      => /\ resp[r].status = 400
         /\ Field(resp[r], "error")
         /\ Calls(r, "insert_raw_events") = <<>>

\* the checks an item of a push has to pass, as the contract words them
MeetsRowChecks(event) ==
  event.title # "" /\ Len(event.title) \in 5..500 /\ event.description # ""

\* the rows of a sequence of insert calls
RECURSIVE RowsOf(_)
RowsOf(calls) == IF calls = <<>> THEN 0 ELSE Head(calls).rows + RowsOf(Tail(calls))

\* a push with a list of items, none of them null
ItemsPushed(r) ==
  /\ req[r].body = "push" /\ req[r].kind = "events"
  /\ \A k \in 1..Len(req[r].events) : ~req[r].events[k].null

Pushed(r) ==
  IF req[r].body = "push" /\ pc[r] \in {"insert_batch", "done"}
     /\ Field(local[r], "insertedEvents")
    THEN {local[r].insertedEvents[k].id : k \in 1..Len(local[r].insertedEvents)}
    ELSE {}

\* C22: ingest-to-scan hand-off.  When a stored-path scan has read and
\* extracted a row written by a push (a row of an accepted item, dated inside
\* the window or undated), the Candidate Builder has given at least one
\* candidate for that row, so the run reports events_extracted >= 1.
C22_HandOff ==
  \A p \in Runs, r \in Runs :
    (/\ req[r].body = "json" /\ ~req[r].has_raw
     /\ pc[r] \in {"gatekeeper", "enrichment", "roster", "fanout", "done"})
      => \A i \in 1..Len(local[r].rawEvents) :
           local[r].rawEvents[i].id \in Pushed(p) =>
             /\ \E j \in 1..Len(local[r].allPotentialEvents) :
                  local[r].allPotentialEvents[j].source_url = local[r].rawEvents[i].source_url
             /\ Field(resp[r], "events_extracted") => resp[r].events_extracted >= 1

\* the run serves the two-item feed of the scenario, the service has answered
\* both calls with a list, the Gatekeeper's holding the festival alone and
\* the Enrichment's the festival with a date the fan-out can read, and the
\* roster read has given two tenants
Scenario(r) ==
  /\ req[r].body = "json" /\ req[r].has_raw /\ req[r].raw_data = <<FestivalPayload>>
  /\ local[r].startDate <= ParseDate("2025-03-15")
  /\ ParseDate("2025-03-15") <= local[r].endDate
  /\ CallKind(r, "gatekeeper_call") = "listed"
  /\ Len(local[r].filteredEvents) = 1
  /\ local[r].filteredEvents[1].title = "Loudoun Wine Festival 3/15/2025"
  /\ CallKind(r, "enrichment_call") = "listed"
  /\ Len(local[r].finalEvents) = 1
  /\ local[r].finalEvents[1].event_name = "Loudoun Wine Festival 3/15/2025"
  /\ local[r].finalEvents[1].event_date.kind # "text"
  /\ Len(winery_profiles) = 2 /\ RosterRead(r)

StageOf(op) ==
  CASE op \in {"select_raw_events", "update_raw_event"} -> 1
    [] op = "gatekeeper_call" -> 2
    [] op = "enrichment_call" -> 3
    [] op = "select_wineries" -> 4
    [] op = "insert_brief" -> 5
    [] OTHER -> 0

\* the calls of a run that belong to the stages named
StageCalls(r, stages) == SelectSeq(trace[r], LAMBDA e : StageOf(e.op) \in stages)

\* C24: stage ordering within a run.  The calls of a run come in the order
\* of the stages - Gatekeeper, Enrichment, roster read, brief insertions - each
\* service at most once; the Enrichment call is given the Gatekeeper's output
\* and the fan-out inserts briefs of the Enrichment's output only, after the
\* Enrichment is over; and after a stage with an empty output nothing of a
\* later stage happens: no service call, no roster read, no insertion.
C24_StageOrdering ==
  \A r \in Runs :
    req[r].body = "json" =>
      /\ \A i \in 1..Len(trace[r]), j \in 1..Len(trace[r]) :
           i < j => /\ StageOf(trace[r][i].op) <= StageOf(trace[r][j].op)
                    /\ StageOf(trace[r][j].op) \in {2, 3, 4}
                         => StageOf(trace[r][i].op) < StageOf(trace[r][j].op)
      /\ \A k \in 1..Len(Calls(r, "gatekeeper_call")) :
           Calls(r, "gatekeeper_call")[k].input = local[r].allPotentialEvents
      /\ \A k \in 1..Len(Calls(r, "enrichment_call")) :
           /\ Calls(r, "enrichment_call")[k].input = local[r].filteredEvents
           /\ pc[r] \in AfterGatekeeper
      /\ StageCalls(r, {4, 5}) # <<>> => pc[r] \in AfterEnrichment
      /\ \A k \in 1..Len(Calls(r, "insert_brief")) :
           Calls(r, "insert_brief")[k].event \in 1..Len(local[r].finalEvents)
      /\ \A k \in 1..Len(research_briefs) :
           \E e \in 1..Len(local[r].finalEvents) :
             research_briefs[k].local_event_name = local[r].finalEvents[e].event_name
      /\ local[r].allPotentialEvents = <<>> => StageCalls(r, {2, 3, 4, 5}) = <<>>
      /\ local[r].filteredEvents = <<>> => StageCalls(r, {3, 4, 5}) = <<>>
      /\ local[r].finalEvents = <<>> => StageCalls(r, {4, 5}) = <<>>

\* C24 (case): a run whose Gatekeeper call came back with an empty list, and
\* which ended there
C24_StoppedAfterGatekeeper ==
  \E r \in Runs :
    /\ pc[r] = "done" /\ resp[r].status = 200
    /\ Calls(r, "gatekeeper_call") # <<>>
    /\ local[r].allPotentialEvents # <<>> /\ local[r].filteredEvents = <<>>
    /\ StageCalls(r, {3, 4, 5}) = <<>>

\* the candidates one inline payload stands for: those of its well-formed
\* items, none when the payload fails as a whole
PayloadCandidates(r, i) ==
  IF SourceNameThrows(req[r].raw_data[i].source_url) \/ ~req[r].raw_data[i].has_content
    THEN <<>>
    ELSE extractRSSEvents(req[r].raw_data[i].raw_content, req[r].raw_data[i].source_url,
                          SourceName(req[r].raw_data[i].source_url),
                          local[r].startDate, local[r].endDate, now)

\* C25: per-feed failure isolation.  Extraction never fails the run: whatever
\* its payloads are (no item blocks, items without a usable title, no
\* raw_content, a source_url that is no URL), the candidates of an inline run
\* are those of all its payloads one after the other, a failing payload
\* standing for none or for its well-formed items; the run does not answer
\* 500 unless the roster is unreadable, and the events_extracted it reports is
\* the sum of the payloads' candidates.
C25_FeedIsolation ==
  \A r \in Runs :
    (req[r].body = "json" /\ req[r].has_raw)
      => /\ pc[r] = "gatekeeper" =>
              local[r].allPotentialEvents =
                Concat([i \in 1..Len(req[r].raw_data) |-> PayloadCandidates(r, i)])
         /\ (pc[r] = "done" /\ ~RosterUnreadable(r)) =>
              /\ resp[r].status = 200
              /\ Field(resp[r], "events_extracted")
                   => resp[r].events_extracted = Len(local[r].allPotentialEvents)

\* C26: per-feed cap.  Of a feed payload only the first 100 item blocks are
\* considered: the candidates of an inline run with one payload are at most
\* 100, each of them an item among the first 100 blocks of the payload,
\* however many blocks the payload holds.
C26_FeedCap ==
  \A r \in Runs :
    (pc[r] = "gatekeeper" /\ req[r].body = "json" /\ req[r].has_raw
     /\ Len(req[r].raw_data) = 1)
      => /\ Len(local[r].allPotentialEvents) <= 100
         /\ \A j \in 1..Len(local[r].allPotentialEvents) :
              \E k \in 1..100 :
                /\ k <= Len(req[r].raw_data[1].raw_content)
                /\ req[r].raw_data[1].raw_content[k].title
                     = local[r].allPotentialEvents[j].title

\* C26 (case): a feed of more than 100 items has given exactly 100
\* candidates, the last of them the hundredth item
C26_HundredOfMore ==
  \E r \in Runs :
    /\ pc[r] = "gatekeeper" /\ req[r].has_raw
    /\ Len(req[r].raw_data[1].raw_content) > 100
    /\ Len(local[r].allPotentialEvents) = 100
    /\ local[r].allPotentialEvents[100].title = "Harvest Day 100"

\* the feeds a run has extracted its candidates from: its inline payloads, or
\* the stored rows it has read
FeedsOf(r) ==
  IF req[r].has_raw
    THEN [i \in 1..Len(req[r].raw_data) |->
            [source_url |-> req[r].raw_data[i].source_url,
             raw_content |-> req[r].raw_data[i].raw_content]]
    ELSE [i \in 1..Len(local[r].rawEvents) |->
            [source_url |-> local[r].rawEvents[i].source_url,
             raw_content |-> local[r].rawEvents[i].raw_content]]

\* the link the contract gives the candidate of an item block of a feed
LinkOf(block, feed) ==
  IF Trim(block.link) # "" THEN Trim(block.link)
  ELSE IF Trim(block.guid) # "" THEN Trim(block.guid)
  ELSE feed.source_url

\* the final events of the run are those of the fallback
FellBack(r) ==
  pc[r] \in AfterEnrichment /\ CallKind(r, "enrichment_call") \in {"no_call"} \cup FailedCall

InsertsDone(r) == SelectSeq(Calls(r, "insert_raw_events"), LAMBDA c : c.ok)

\* C28: push accounting.  The items passing the checks are handed to the
\* table in batches of at most 50, every batch being tried whether or not an
\* earlier one failed; events_processed is the number of rows inserted and
\* events_skipped the number of items rejected, so that processed + skipped
\* <= received, with equality exactly when no batch insert failed; and
\* sources_summary is the set of the source labels of the inserted rows.
C28_PushAccounting ==
  \A r \in Runs :
    req[r].body = "push" =>
      /\ \A k \in 1..Len(Calls(r, "insert_raw_events")) :
           Calls(r, "insert_raw_events")[k].rows \in 1..50
      /\ (pc[r] = "done" /\ ItemsPushed(r) /\ req[r].events # <<>>) =>
           /\ 50 * Len(Calls(r, "insert_raw_events")) >= RowsOf(Calls(r, "insert_raw_events"))
           /\ 50 * (Len(Calls(r, "insert_raw_events")) - 1) < RowsOf(Calls(r, "insert_raw_events"))
                 \/ Calls(r, "insert_raw_events") = <<>>
           /\ RowsOf(Calls(r, "insert_raw_events")) + resp[r].events_skipped
                = resp[r].events_received
           /\ resp[r].events_received = Len(req[r].events)
           /\ resp[r].events_processed = RowsOf(InsertsDone(r))
           /\ resp[r].events_processed + resp[r].events_skipped <= resp[r].events_received
           /\ (resp[r].events_processed + resp[r].events_skipped = resp[r].events_received)
                <=> InsertsDone(r) = Calls(r, "insert_raw_events")
           /\ Field(resp[r], "data") =>
                /\ Len(resp[r].data) = resp[r].events_processed
                /\ \A a \in 1..Len(resp[r].data), b \in 1..Len(resp[r].data) :
                     a # b => resp[r].data[a].id # resp[r].data[b].id
                /\ resp[r].sources_summary
                     = {raw_events[resp[r].data[k].id].source_name : k \in 1..Len(resp[r].data)}

\* C28 (case): a push of 51 items whose first batch failed and whose second
\* batch, of one row, was inserted
C28_SecondBatchAfterFailure ==
  \E r \in Runs :
    /\ pc[r] = "done" /\ ItemsPushed(r) /\ Len(req[r].events) = 51
    /\ Len(Calls(r, "insert_raw_events")) = 2
    /\ ~Calls(r, "insert_raw_events")[1].ok /\ Calls(r, "insert_raw_events")[2].ok
    /\ resp[r].events_processed = 1 /\ resp[r].events_skipped = 0
    /\ resp[r].sources_summary = {"Visit Loudoun Events"}

\* run r has read the row id
HasRead(r, id) == \E i \in 1..Len(local[r].rawEvents) : local[r].rawEvents[i].id = id

\* C29: the flag is set before classification and never rolled back.  In the
\* stored path the flag of a row is written during extraction - by a run that
\* has read the row and has made no Gatekeeper call, roster read or brief
\* insertion yet - and a flag update that succeeded leaves the flag true;
\* however the run goes on (zero final events, an unreadable roster and 500,
\* failed insertions) a flag that is true stays true, and the read of a later
\* run does not return a row whose flag is true.
C29_FlagBeforeClassification ==
  /\ [](\A r \in Runs :
          /\ \A i \in 1..Len(trace[r]), j \in 1..Len(trace[r]) :
               (i < j /\ trace[r][j].op = "update_raw_event")
                 => StageOf(trace[r][i].op) = 1
          /\ \A k \in 1..Len(Calls(r, "update_raw_event")) :
               /\ HasRead(r, Calls(r, "update_raw_event")[k].id)
               /\ Calls(r, "update_raw_event")[k].ok
                    => raw_events[Calls(r, "update_raw_event")[k].id].is_processed)
  /\ [][\A id \in 1..Len(raw_events) :
          /\ raw_events[id].is_processed => raw_events'[id].is_processed
          /\ raw_events'[id].is_processed # raw_events[id].is_processed =>
               \E r \in Runs :
                 /\ pc[r] = "extract" /\ HasRead(r, id)
                 /\ local[r].filteredEvents = <<>> /\ local[r].finalEvents = <<>>
                 /\ StageCalls(r, {2, 3, 4, 5}) = <<>>]_vars
  /\ [][\A r \in Runs :
          (pc[r] = "read_raw" /\ pc'[r] # "read_raw") =>
            \A i \in 1..Len(local'[r].rawEvents) :
              ~raw_events[local'[r].rawEvents[i].id].is_processed]_vars

\* C29 (case): a run that flagged a row and then answered 500 on an unreadable
\* roster, and a later run whose read succeeded without returning the row
C29_FlaggedThenFailed ==
  \E r \in Runs, later \in Runs, id \in 1..Len(raw_events) :
    /\ pc[r] = "done" /\ resp[r].status = 500 /\ RosterUnreadable(r)
    /\ HasRead(r, id) /\ raw_events[id].is_processed
    /\ later # r /\ pc[later] = "done"
    /\ Calls(later, "select_raw_events") # <<>> /\ Calls(later, "select_raw_events")[1].ok
    /\ ~HasRead(later, id)

\* what a row holds besides its flag
Content(row) ==
  [source_url |-> row.source_url, source_name |-> row.source_name,
   raw_content |-> row.raw_content]

\* C30: the processed flag is monotone.  Whatever pushes and scans do, in
\* whatever interleaving, no step deletes a row of the ingestion table,
\* changes a row's source or content, or takes a flag from true to false; a
\* flag only goes from false to true, by a stored-path scan that has read the
\* row; and the briefs already stored are neither changed nor deleted.
C30_FlagMonotone ==
  [][/\ Len(raw_events') >= Len(raw_events)
     /\ \A id \in 1..Len(raw_events) :
          /\ Content(raw_events'[id]) = Content(raw_events[id])
          /\ raw_events[id].is_processed => raw_events'[id].is_processed
          /\ raw_events'[id].is_processed # raw_events[id].is_processed =>
               \E r \in Runs :
                 /\ req[r].body = "json" /\ ~req[r].has_raw
                 /\ StepOf(r) /\ HasRead(r, id)
     /\ Len(research_briefs') >= Len(research_briefs)
     /\ SubSeq(research_briefs', 1, Len(research_briefs)) = research_briefs]_vars

\* C30 (case): a row written by a push, read and flagged by a scan that went
\* on to store briefs, next to an earlier row
C30_PushedRowFlagged ==
  \E p \in Runs, r \in Runs, id \in 1..Len(raw_events) :
    /\ id \in Pushed(p) /\ id > 1
    /\ req[r].body = "json" /\ HasRead(r, id) /\ raw_events[id].is_processed
    /\ pc[r] = "done" /\ research_briefs # <<>>

====
